---- MODULE Spec2Model ----
(***************************************************************************)
(* State-machine model of the robot-project frame transport:               *)
(*   - the handshake server            (src/xeon_handshake.py)             *)
(*   - the plain stream receiver       (src/xeon_stream.py)                *)
(*   - the fiducial (calibrated) server (src/server_stream_cal_1.py)       *)
(*   - the stereo depth server         (src/xeon_stream_depth.py)          *)
(* A TCP connection is a byte sequence written by the peer and a read      *)
(* position; recv(n) returns any non-empty prefix of at most n of the      *)
(* unread bytes, the empty string once the peer has closed, and raises     *)
(* once the peer has reset the connection.                                 *)
(***************************************************************************)
EXTENDS Integers, Sequences, FiniteSets, TLC

\* ------------------------------------------------------------------ bounds
\* number of frames the streaming peer may send on one connection
MaxFrames == 2
\* number of concurrent MJPEG viewers (generate_mjpeg_stream generators)
NumViewers == 2
\* number of seconds the clock may advance
MaxTime == 3

\* ------------------------------------------------------- program constants
BUFFER_SIZE == 4096
HEADER_SIZE == 8
LEN_PREFIX_SIZE == 4
EXPECTED_CAMERA == 0
FRAME_TIMEOUT == 1

EXPECTED_CAMERAS == <<0, 1>>

None == [t |-> "none", v |-> <<>>]

Min(a, b) == IF a < b THEN a ELSE b

\* =====================================================================
\* Byte helpers (int.from_bytes / to_bytes / struct '!II')
\* =====================================================================
RECURSIVE FromBytesBig(_)
\* int.from_bytes(bs, byteorder='big')
FromBytesBig(bs) ==
    IF bs = <<>> THEN 0
    ELSE FromBytesBig(SubSeq(bs, 1, Len(bs) - 1)) * 256 + bs[Len(bs)]

\* n.to_bytes(4, byteorder='big') / one '!I' field of struct.pack
ToBytes4(n) ==
    << (n \div 16777216) % 256, (n \div 65536) % 256, (n \div 256) % 256, n % 256 >>

\* =====================================================================
\* Handshake server: src/xeon_handshake.py
\* =====================================================================
VARIABLES
    hs_pc,        \* position of handle_handshake: "listen", "recv_len", "recv_payload", "done", "crashed"
    hs_doc,       \* the document whose serialisation the peer wrote as the body
    hs_wire,      \* bytes the peer wrote on the handshake connection
    hs_pos,       \* number of bytes of hs_wire the server has consumed
    hs_peer,      \* "open", "closed" (peer closed after hs_wire), "reset"
    length_bytes, \* handle_handshake local: result of client.recv(4)
    payload,      \* handle_handshake local: parsed payload (None before parsing)
    hs_sent,      \* sequence of replies the server wrote on the connection
    hs_outcome,   \* what handle_handshake logged: "none", "ack", "invalid", "error", "nodata", "timeout"
    hs_client,    \* the local name `client`: "unbound", "open", "closed"
    hs_server     \* the listening socket: "listening", "closed"

hsVars == << hs_pc, hs_doc, hs_wire, hs_pos, hs_peer, length_bytes, payload,
             hs_sent, hs_outcome, hs_client, hs_server >>

Keys == {"resolution", "fps", "cameras", "timestamp"}

\* JSON values, tagged with their Python type after json.loads
List(s) == [t |-> "list", v |-> s]
Num(n)  == [t |-> "num", v |-> <<n>>]
Str(s)  == [t |-> "str", v |-> s]

CameraValues == { List(<<0, 1>>), List(<<1, 0>>), List(<<0>>), List(<<0, 1, 2>>),
                  List(<<0, 2>>), Num(0) }
ResolutionValues == { List(<<320, 240>>), List(<<320>>), List(<<320, 240, 3>>),
                      Str(<<51, 50>>), Num(320) }
FpsValues == { Num(15) }
TimestampValues == { Num(1), Num(2), Str(<<49>>) }

ValuesOf(k) ==
    CASE k = "cameras" -> CameraValues
      [] k = "resolution" -> ResolutionValues
      [] k = "fps" -> FpsValues
      [] OTHER -> TimestampValues

\* every JSON object over the four keys (any subset of them present)
Objects ==
    UNION { { [kind |-> "object", fields |-> f, elems |-> {}] :
                f \in { g \in [ks -> UNION { ValuesOf(k) : k \in ks }] :
                          \A k \in ks : g[k] \in ValuesOf(k) } } : ks \in SUBSET Keys }

\* bodies that are not JSON objects: a JSON array (of strings), a JSON number,
\* and bytes that are not JSON at all
NonObjects ==
    { [kind |-> "array", fields |-> << >>, elems |-> {}],
      [kind |-> "array", fields |-> << >>, elems |-> Keys],
      [kind |-> "number", fields |-> << >>, elems |-> {}],
      [kind |-> "garbage", fields |-> << >>, elems |-> {}] }

Docs == Objects \cup NonObjects

\* the serialised body: its bytes stand for the text of hs_doc
BodyBytes == <<123, 125>>
\* len(payload_bytes).to_bytes(4, 'big') followed by the body (pi_handshake.py)
HandshakeMessage == ToBytes4(Len(BodyBytes)) \o BodyBytes

\* json.loads(payload_bytes.decode('utf-8')): the document when the bytes are
\* its complete serialisation, an exception otherwise
JsonLoads(bytes, doc) ==
    IF bytes = BodyBytes /\ doc.kind # "garbage" THEN doc
    ELSE [kind |-> "raise", fields |-> << >>, elems |-> {}]

\* `key in payload` for a dict (key present) or a list (element present)
Contains(p, k) ==
    IF p.kind = "object" THEN k \in DOMAIN p.fields ELSE k \in p.elems

ValidatePayload_anyorder(p) ==
    IF p.kind = "number" THEN "raise"
    ELSE IF ~(\A k \in Keys : Contains(p, k)) THEN "false"
    ELSE IF p.kind # "object" THEN "raise"
    ELSE IF ~(p.fields["cameras"].t = "list"
              /\ {p.fields["cameras"].v[i] : i \in DOMAIN p.fields["cameras"].v}
                   = {EXPECTED_CAMERAS[i] : i \in DOMAIN EXPECTED_CAMERAS}) THEN "false"
    ELSE IF ~(p.fields["resolution"].t = "list" /\ Len(p.fields["resolution"].v) = 2)
         THEN "false"
    ELSE "true"

\* validate_payload: "true"/"false", or "raise" when the payload is no dict
ValidatePayload(p) ==
    IF p.kind = "number" THEN "raise"                       \* `key in 12`: TypeError
    ELSE IF ~(\A k \in Keys : Contains(p, k)) THEN "false"  \* line 22
    ELSE IF p.kind # "object" THEN "raise"                  \* list['cameras']: TypeError
    ELSE IF p.fields["cameras"] # List(EXPECTED_CAMERAS) THEN "false"      \* line 25
    ELSE IF ~(p.fields["resolution"].t = "list" /\ Len(p.fields["resolution"].v) = 2)
         THEN "false"                                       \* line 28
    ELSE "true"

\* the server's clock when it builds the reply
ServerNow == Num(99)

MakeAck_now(p) == [status |-> "ACK", timestamp |-> ServerNow]

\* ack = {'status': 'ACK', 'timestamp': payload['timestamp']}
MakeAck(p) == [status |-> "ACK", timestamp |-> p.fields["timestamp"]]

RepliesAfterValidation_always(p, verdict) ==
    IF verdict \in {"true", "false"} /\ p.kind = "object" /\ "timestamp" \in DOMAIN p.fields
    THEN <<MakeAck(p)>> ELSE <<>>

\* lines 61-67: what is written on the connection once the payload is validated
RepliesAfterValidation(p, verdict) ==
    IF verdict = "true" THEN <<MakeAck(p)>> ELSE <<>>

HsInit(docs) ==
    /\ hs_pc = "listen"
    /\ hs_doc \in docs
    /\ hs_wire = HandshakeMessage
    /\ hs_pos = 0
    /\ hs_peer = "open"
    /\ length_bytes = <<>>
    /\ payload = None
    /\ hs_sent = <<>>
    /\ hs_outcome = "none"
    /\ hs_client = "unbound"
    /\ hs_server = "listening"

\* the peer closes its end: nothing follows the bytes already consumed
HsPeerClose ==
    /\ hs_pc \in {"recv_len", "recv_payload"}
    /\ hs_peer = "open"
    /\ hs_peer' = "closed"
    /\ hs_wire' = SubSeq(hs_wire, 1, hs_pos)
    /\ UNCHANGED << hs_pc, hs_doc, hs_pos, length_bytes, payload, hs_sent,
                    hs_outcome, hs_client, hs_server >>

\* the connection is reset: the next recv raises
HsPeerReset ==
    /\ hs_pc \in {"recv_len", "recv_payload"}
    /\ hs_peer = "open"
    /\ hs_peer' = "reset"
    /\ hs_wire' = SubSeq(hs_wire, 1, hs_pos)
    /\ UNCHANGED << hs_pc, hs_doc, hs_pos, length_bytes, payload, hs_sent,
                    hs_outcome, hs_client, hs_server >>

\* server.accept() returns a connection (line 45)
HsAccept ==
    /\ hs_pc = "listen"
    /\ hs_pc' = "recv_len"
    /\ hs_client' = "open"
    /\ UNCHANGED << hs_doc, hs_wire, hs_pos, hs_peer, length_bytes, payload,
                    hs_sent, hs_outcome, hs_server >>

\* server.accept() times out (line 69); the finally clause then evaluates
\* client.close() with `client` unbound, which raises before server.close()
HsAcceptTimeout ==
    /\ hs_pc = "listen"
    /\ hs_pc' = "crashed"
    /\ hs_outcome' = "timeout"
    /\ UNCHANGED << hs_doc, hs_wire, hs_pos, hs_peer, length_bytes, payload,
                    hs_sent, hs_client, hs_server >>

HsFinally_relisten ==
    /\ hs_pc' = "listen"
    /\ hs_client' = "closed"
    /\ hs_server' = "listening"

\* finally: client.close(); server.close()  (lines 73-75)
HsFinally ==
    /\ hs_pc' = "done"
    /\ hs_client' = "closed"
    /\ hs_server' = "closed"

\* length_bytes = client.recv(4)  (lines 49-53)
HsRecvLen ==
    /\ hs_pc = "recv_len"
    /\ \/ \* some bytes are returned
          /\ hs_pos < Len(hs_wire)
          /\ \E k \in 1 .. Min(LEN_PREFIX_SIZE, Len(hs_wire) - hs_pos) :
                /\ length_bytes' = SubSeq(hs_wire, hs_pos + 1, hs_pos + k)
                /\ hs_pos' = hs_pos + k
          /\ hs_pc' = "recv_payload"
          /\ UNCHANGED << hs_outcome, hs_client, hs_server >>
       \/ \* the peer closed without sending: `if not length_bytes: return`
          /\ hs_pos = Len(hs_wire) /\ hs_peer = "closed"
          /\ hs_outcome' = "nodata"
          /\ HsFinally
          /\ UNCHANGED << length_bytes, hs_pos >>
       \/ \* recv raises: except Exception
          /\ hs_pos = Len(hs_wire) /\ hs_peer = "reset"
          /\ hs_outcome' = "error"
          /\ HsFinally
          /\ UNCHANGED << length_bytes, hs_pos >>
    /\ UNCHANGED << hs_doc, hs_wire, hs_peer, payload, hs_sent >>

\* lines 57-67 and the finally clause, given the bytes recv(length) returned
HsHandlePayload(bytes) ==
    LET p == JsonLoads(bytes, hs_doc)
        verdict == IF p.kind = "raise" THEN "raise" ELSE ValidatePayload(p)
    IN  /\ payload' = (IF p.kind = "raise" THEN None
                       ELSE [t |-> "doc", v |-> <<p>>])
        /\ hs_sent' = hs_sent \o RepliesAfterValidation(p, verdict)
        /\ hs_outcome' = (CASE verdict = "true" -> "ack"
                            [] verdict = "false" -> "invalid"
                            [] OTHER -> "error")
        /\ HsFinally

\* payload_bytes = client.recv(length) and everything after it (lines 53-75)
HsRecvPayload ==
    /\ hs_pc = "recv_payload"
    /\ LET length == FromBytesBig(length_bytes) IN
       \/ \* recv(0) returns b'' at once
          /\ length = 0
          /\ HsHandlePayload(<<>>)
          /\ UNCHANGED hs_pos
       \/ /\ length > 0 /\ hs_pos < Len(hs_wire)
          /\ \E k \in 1 .. Min(length, Len(hs_wire) - hs_pos) :
                /\ HsHandlePayload(SubSeq(hs_wire, hs_pos + 1, hs_pos + k))
                /\ hs_pos' = hs_pos + k
       \/ /\ length > 0 /\ hs_pos = Len(hs_wire) /\ hs_peer = "closed"
          /\ HsHandlePayload(<<>>)
          /\ UNCHANGED hs_pos
       \/ /\ length > 0 /\ hs_pos = Len(hs_wire) /\ hs_peer = "reset"
          /\ payload' = None
          /\ hs_outcome' = "error"
          /\ HsFinally
          /\ UNCHANGED << hs_pos, hs_sent >>
    /\ UNCHANGED << hs_doc, hs_wire, hs_peer, length_bytes >>

\* =====================================================================
\* Handshake client: src/pi-scripts/pi_handshake.py
\* =====================================================================
VARIABLES
    pi_pc,      \* position of main: "off", "loop", "connect", "wait_reply", "sleep", "succeeded", "failed"
    attempt,    \* number of iterations of the retry loop begun so far
    pi_client,  \* the socket of the current send_handshake: "none", "open", "closed"
    pi_log      \* per finished send_handshake: what happened to it and what it returned

piVars == << pi_pc, attempt, pi_client, pi_log >>

max_retries == 3

\* the text of a status, as bytes
ACK == <<65, 67, 75>>
LOWER_ACK == <<97, 99, 107>>
REJECTED == <<82, 69, 74>>

\* the bytes of a reply: they stand for the text of the reply document
ReplyBytes == <<123, 34, 125>>

\* the documents a peer may reply with
ReplyObjects ==
    { [kind |-> "object", fields |-> f] :
        f \in { [status |-> Str(ACK), timestamp |-> Num(1)],
                [status |-> Str(ACK)],
                [status |-> Str(LOWER_ACK), timestamp |-> Num(1)],
                [status |-> Str(REJECTED), timestamp |-> Num(1)],
                [status |-> Num(1)],
                [status |-> List(ACK)],
                [timestamp |-> Num(1)] } }
ReplyNonObjects ==
    { [kind |-> k, fields |-> << >>] : k \in {"array", "string", "number", "null", "garbage"} }
ReplyDocs == ReplyObjects \cup ReplyNonObjects

\* what can happen to client.connect and the two client.sendall (lines 33-47)
ConnectOutcomes == {"connected", "refused", "timeout", "unreachable", "send_error"}

\* what can happen to client.recv(BUFFER_SIZE) (line 51): a timeout, a reset,
\* or n bytes of the reply doc (0 when the peer closed without replying, fewer
\* than the whole reply on a partial read)
RecvOutcomes ==
    { [kind |-> "timeout", doc |-> None, n |-> 0], [kind |-> "reset", doc |-> None, n |-> 0] }
    \cup { [kind |-> "reply", doc |-> d, n |-> k] :
             d \in ReplyDocs, k \in 0 .. Min(BUFFER_SIZE, Len(ReplyBytes)) }

\* json.loads(ack_bytes.decode('utf-8')) of the first n bytes of the reply
ReplyLoads(doc, n) ==
    IF n = Len(ReplyBytes) /\ doc.kind # "garbage" THEN doc
    ELSE [kind |-> "raise", fields |-> << >>]

AckAccepted_any(ack) == TRUE

\* ack.get('status') == 'ACK', for a dict
AckAccepted(ack) ==
    "status" \in DOMAIN ack.fields /\ ack.fields["status"] = Str(ACK)

\* what send_handshake returns once recv has returned or raised (lines 51-72)
ReplyResult(r) ==
    IF r.kind # "reply" THEN FALSE                  \* except socket.timeout / Exception
    ELSE LET ack == ReplyLoads(r.doc, r.n) IN
         IF ack.kind = "raise" THEN FALSE           \* JSONDecodeError: except Exception
         ELSE IF ack.kind # "object" THEN FALSE     \* no attribute get: except Exception
         ELSE AckAccepted(ack)

PiInit ==
    /\ pi_pc = "loop"
    /\ attempt = 0
    /\ pi_client = "none"
    /\ pi_log = <<>>

\* the client before it is started, kept still
PiIdle ==
    /\ pi_pc = "off"
    /\ attempt = 0
    /\ pi_client = "none"
    /\ pi_log = <<>>

MoreAttempts_unbounded(n) == TRUE

\* for attempt in range(max_retries)
MoreAttempts(n) == n < max_retries

\* the next iteration begins: send_handshake creates its socket (lines 79-80, 28-29)
PiBegin ==
    /\ pi_pc = "loop"
    /\ MoreAttempts(attempt)
    /\ attempt' = attempt + 1
    /\ pi_client' = "open"
    /\ pi_pc' = "connect"
    /\ UNCHANGED pi_log

\* the loop is exhausted: "Handshake failed after all retries" (line 85)
PiGiveUp ==
    /\ pi_pc = "loop"
    /\ ~MoreAttempts(attempt)
    /\ pi_pc' = "failed"
    /\ UNCHANGED << attempt, pi_client, pi_log >>

\* send_handshake returns: finally client.close(), then lines 81-84 of main
PiReturn(cause, result) ==
    /\ pi_client' = "closed"
    /\ pi_log' = Append(pi_log, [cause |-> cause, result |-> result])
    /\ pi_pc' = (IF result THEN "succeeded" ELSE "sleep")
    /\ UNCHANGED attempt

\* connect and the two sendall (lines 33-48)
PiConnect ==
    /\ pi_pc = "connect"
    /\ \E c \in ConnectOutcomes :
          IF c = "connected"
          THEN pi_pc' = "wait_reply" /\ UNCHANGED << attempt, pi_client, pi_log >>
          ELSE PiReturn([kind |-> c, doc |-> None, n |-> 0], FALSE)

\* ack_bytes = client.recv(...) and everything after it (lines 51-74)
PiRecvReply ==
    /\ pi_pc = "wait_reply"
    /\ \E r \in RecvOutcomes : PiReturn(r, ReplyResult(r))

\* time.sleep(2) after a failed attempt (line 84)
PiSleep ==
    /\ pi_pc = "sleep"
    /\ pi_pc' = "loop"
    /\ UNCHANGED << attempt, pi_client, pi_log >>

\* =====================================================================
\* Frame stream: the connection, and receive_frame
\* (src/xeon_stream.py:19-53; src/xeon_stream_depth.py:33-61 and
\*  src/server_stream_cal_1.py:45-73 are the same function)
\* =====================================================================
VARIABLES
    frames,         \* the frames the peer has written so far, in order
    stream,         \* the bytes the peer has written on the stream connection
    pos,            \* number of bytes of stream the server has consumed
    peer,           \* "open", "closed", "reset"
    short_reads,    \* the network may return fewer bytes than asked for while more are in flight
    pc,             \* position of main: "listen", "hdr", "body", "ret", ..., "done", "crashed"
    client,         \* the local name `client` of main: "unbound", "open", "closed"
    server,         \* the listening socket: "listening", "closed"
    hdr_at,         \* value of pos when the last header read began
    cam_id,         \* receive_frame local
    frame_size,     \* receive_frame local
    frame_data,     \* receive_frame local (bytes_received is Len(frame_data))
    ret,            \* what receive_frame returned: [cam, frame]
    log,            \* the last message receive_frame logged
    eof_seen,       \* a recv of this connection has returned b'' or raised
    decode_drop,    \* receive_frame has logged "Failed to decode frame" on this connection
    now,            \* the wall clock, time.time(), in seconds
    last_frame_time, \* main local: the clock when the last frame was processed
    lag_warned      \* the last staleness check logged "Frame timeout, possible lag"

connVars == << frames, stream, pos, peer, short_reads >>
rfVars == << hdr_at, cam_id, frame_size, frame_data, ret, log, eof_seen, decode_drop >>
sockVars == << client, server >>
wdVars == << last_frame_time, lag_warned >>

\* payloads: two byte strings the image library decodes, one it rejects.
\* TLC's integers are 32-bit signed, so every byte of a payload is below 128:
\* a uint32 unpacked from any eight bytes of the stream then fits. The two
\* marker bytes stand for the start-of-image marker of a JPEG file.
JPEG_A == <<74, 80>>
JPEG_B == <<74, 80, 7>>
NOT_JPEG == <<7>>

\* the frames a peer may send to the plain receiver, to the fiducial server
\* (camera 0 expected) and to the stereo server (cameras 0 and 1 expected)
StreamFrames ==
    { [cam |-> 0, data |-> JPEG_A], [cam |-> 0, data |-> JPEG_B],
      [cam |-> 1, data |-> JPEG_A], [cam |-> 1, data |-> NOT_JPEG],
      [cam |-> 2, data |-> JPEG_A], [cam |-> 0, data |-> NOT_JPEG] }
CalFrames ==
    { [cam |-> 0, data |-> JPEG_A], [cam |-> 0, data |-> JPEG_B],
      [cam |-> 0, data |-> NOT_JPEG], [cam |-> 1, data |-> JPEG_A] }
DepthFrames ==
    { [cam |-> 0, data |-> JPEG_A], [cam |-> 1, data |-> JPEG_B],
      [cam |-> 1, data |-> NOT_JPEG], [cam |-> 2, data |-> JPEG_A] }

\* struct.pack('!II', cam_id, len(data)) + data: the sender's frame message
EncodeFrame(f) == ToBytes4(f.cam) \o ToBytes4(Len(f.data)) \o f.data

UnpackHeader_swapped(header) ==
    [cam_id |-> FromBytesBig(SubSeq(header, 5, 8)),
     frame_size |-> FromBytesBig(SubSeq(header, 1, 4))]

\* cam_id, frame_size = struct.unpack('!II', header)
UnpackHeader(header) ==
    [cam_id |-> FromBytesBig(SubSeq(header, 1, 4)),
     frame_size |-> FromBytesBig(SubSeq(header, 5, 8))]

RECURSIVE BoundaryAfter(_)
\* offset in the stream at which the frame after the first n frames begins
BoundaryAfter(n) ==
    IF n = 0 THEN 0
    ELSE BoundaryAfter(n - 1) + HEADER_SIZE + Len(frames[n].data)

\* the offsets at which the sender's frames begin (and the end of the last one)
Boundaries == { BoundaryAfter(n) : n \in 0 .. Len(frames) }

\* images: the decoded frame, and what the perception functions derive from it
Img(kind, data, marks) == [t |-> "img", v |-> <<kind, data, marks>>]
NoCam == -1
Returned(c, f) == [cam |-> c, frame |-> f]

\* cv2.imdecode: an image for a JPEG byte string, None otherwise
Decodable(data) == Len(data) >= 2 /\ data[1] = 74 /\ data[2] = 80
ImDecode(data) == IF Decodable(data) THEN Img("decoded", data, 0) ELSE None

RecvSize_buffer(size, received) == BUFFER_SIZE

\* min(CONFIG['BUFFER_SIZE'], frame_size - bytes_received)
RecvSize(size, received) == Min(BUFFER_SIZE, size - received)

Remaining == Len(stream) - pos

\* the numbers of bytes a recv(n) may return while bytes are in flight
RecvCounts(n) ==
    IF short_reads THEN 1 .. Min(n, Remaining) ELSE { Min(n, Remaining) }

ConnInit(short) ==
    /\ short_reads = short
    /\ frames = <<>>
    /\ stream = <<>>
    /\ pos = 0
    /\ peer = "open"
    /\ pc = "listen"
    /\ client = "unbound"
    /\ server = "listening"
    /\ hdr_at = 0
    /\ cam_id = NoCam
    /\ frame_size = 0
    /\ frame_data = <<>>
    /\ ret = Returned(NoCam, None)
    /\ log = "none"
    /\ eof_seen = FALSE
    /\ decode_drop = FALSE

\* the peer writes one more frame, of at most n on the connection
PeerSendUpTo(universe, n) ==
    /\ pc \notin {"listen", "done", "crashed"}
    /\ peer = "open"
    /\ Len(frames) < n
    /\ \E f \in universe :
          /\ frames' = Append(frames, f)
          /\ stream' = stream \o EncodeFrame(f)
    /\ UNCHANGED << pos, peer, short_reads >>

\* the peer writes one more frame
PeerSendFrame(universe) == PeerSendUpTo(universe, MaxFrames)

\* the peer closes after the bytes the server has consumed: an unread tail is
\* a frame the peer never finished writing
PeerClose ==
    /\ pc \notin {"listen", "done", "crashed"}
    /\ peer = "open"
    /\ peer' = "closed"
    /\ stream' = SubSeq(stream, 1, pos)
    /\ UNCHANGED << frames, pos, short_reads >>

\* the connection is reset: every later recv raises
PeerReset ==
    /\ pc \notin {"listen", "done", "crashed"}
    /\ peer = "open"
    /\ peer' = "reset"
    /\ stream' = SubSeq(stream, 1, pos)
    /\ UNCHANGED << frames, pos, short_reads >>

\* lines 43-49: decode the accumulated payload and return; cv2.imdecode raises
\* on an empty buffer, which the except clause of lines 51-53 turns into the
\* same return value
DecodeAndReturn(cam, data) ==
    LET frame == ImDecode(data) IN
    /\ ret' = (IF frame = None THEN Returned(NoCam, None) ELSE Returned(cam, frame))
    /\ log' = (CASE data = <<>> -> "error"
                 [] frame = None -> "decode_failed"
                 [] OTHER -> "frame")
    /\ decode_drop' = (decode_drop \/ (data # <<>> /\ frame = None))

\* header = client.recv(8) up to the first payload recv (lines 23-34)
RecvHeader ==
    /\ pc = "hdr"
    /\ hdr_at' = pos
    /\ \/ \* recv returns k bytes
          /\ Remaining > 0
          /\ \E k \in RecvCounts(HEADER_SIZE) :
               LET header == SubSeq(stream, pos + 1, pos + k)
                   h == UnpackHeader(header)
               IN  /\ pos' = pos + k
                   /\ IF k # HEADER_SIZE
                      THEN /\ log' = "incomplete_header"
                           /\ ret' = Returned(NoCam, None)
                           /\ pc' = "ret"
                           /\ UNCHANGED << cam_id, frame_size, frame_data, decode_drop >>
                      ELSE /\ cam_id' = h.cam_id
                           /\ frame_size' = h.frame_size
                           /\ frame_data' = <<>>
                           /\ IF h.frame_size = 0
                              THEN DecodeAndReturn(h.cam_id, <<>>) /\ pc' = "ret"
                              ELSE pc' = "body" /\ UNCHANGED << ret, log, decode_drop >>
          /\ UNCHANGED eof_seen
       \/ \* recv returns b'' (peer closed) or raises (reset)
          /\ Remaining = 0 /\ peer \in {"closed", "reset"}
          /\ log' = (IF peer = "closed" THEN "incomplete_header" ELSE "error")
          /\ ret' = Returned(NoCam, None)
          /\ eof_seen' = TRUE
          /\ pc' = "ret"
          /\ UNCHANGED << pos, cam_id, frame_size, frame_data, decode_drop >>
    /\ UNCHANGED << frames, stream, peer, short_reads, client, server, wdVars >>

\* one iteration of the while loop of receive_frame (lines 34-40), and the
\* decode and return once the loop ends (lines 43-49)
RecvChunk ==
    /\ pc = "body"
    /\ \/ /\ Remaining > 0
          /\ \E k \in RecvCounts(RecvSize(frame_size, Len(frame_data))) :
               LET data == frame_data \o SubSeq(stream, pos + 1, pos + k) IN
               /\ pos' = pos + k
               /\ frame_data' = data
               /\ IF Len(data) < frame_size
                  THEN UNCHANGED << pc, ret, log, decode_drop >>
                  ELSE DecodeAndReturn(cam_id, data) /\ pc' = "ret"
          /\ UNCHANGED eof_seen
       \/ /\ Remaining = 0 /\ peer \in {"closed", "reset"}
          /\ log' = (IF peer = "closed" THEN "closed_during_frame" ELSE "error")
          /\ ret' = Returned(NoCam, None)
          /\ eof_seen' = TRUE
          /\ pc' = "ret"
          /\ UNCHANGED << pos, frame_data, decode_drop >>
    /\ UNCHANGED << frames, stream, peer, short_reads, client, server, hdr_at, cam_id,
                    frame_size, wdVars >>

\* `frame is None or cam_id is None` in every main loop
Invalid(r) == r.frame = None \/ r.cam = NoCam

\* main has used what receive_frame returned: the locals of that call are gone
RfDiscard ==
    /\ hdr_at' = 0
    /\ cam_id' = NoCam
    /\ frame_size' = 0
    /\ frame_data' = <<>>
    /\ ret' = Returned(NoCam, None)
    /\ log' = "none"
    /\ UNCHANGED << eof_seen, decode_drop >>


\* =====================================================================
\* The frame header as a pair of functions: struct '!II'
\* (src/xeon_stream.py:22-28)
\* =====================================================================
VARIABLES
    h_pc,      \* "off", "input", "encoded", "decoded"
    h_id,      \* the camera identifier given to the encoder
    h_len,     \* the payload length given to the encoder
    h_bytes,   \* the encoded header
    h_out      \* what the receiver unpacked from h_bytes

hdrVars == << h_pc, h_id, h_len, h_bytes, h_out >>

\* unsigned values at the edges of every byte of a field. TLC's integers are
\* 32-bit signed, so the values from 2^31 upwards are not among them.
HeaderValues == {0, 1, 255, 256, 65535, 65536, 16777216, 2147483647}

\* struct.pack('!II', cam_id, frame_size): the header the sender writes
EncodeHeader(id, len) == ToBytes4(id) \o ToBytes4(len)

HdrInit ==
    /\ h_pc = "input"
    /\ h_id \in HeaderValues
    /\ h_len \in HeaderValues
    /\ h_bytes = <<>>
    /\ h_out = None

HdrIdle ==
    /\ h_pc = "off"
    /\ h_id = 0
    /\ h_len = 0
    /\ h_bytes = <<>>
    /\ h_out = None

\* the sender packs the header
HeaderEncode ==
    /\ h_pc = "input"
    /\ h_bytes' = EncodeHeader(h_id, h_len)
    /\ h_pc' = "encoded"
    /\ UNCHANGED << h_id, h_len, h_out >>

\* the receiver unpacks it (line 28)
HeaderDecode ==
    /\ h_pc = "encoded"
    /\ h_out' = UnpackHeader(h_bytes)
    /\ h_pc' = "decoded"
    /\ UNCHANGED << h_id, h_len, h_bytes >>

\* =====================================================================
\* detect_framing_square (src/server_stream_cal_1.py:75-124): the loop
\* over the contours of the blue mask
\* =====================================================================
VARIABLES
    fid_pc,        \* "off", "loop", "done"
    fid_contours,  \* what findContours returned, in its order
    fid_i,         \* the contour the for loop takes next
    fid_examined,  \* the contours approximated to a polygon (lines 98-99)
    fid_solved,    \* the contours given to solvePnP (line 113)
    fid_drawn,     \* the contour drawn on output_frame (lines 118-120), or 0
    fid_distance   \* the local distance: <<>> for None, or <<tvec[2][0]>>

fidVars == << fid_pc, fid_contours, fid_i, fid_examined, fid_solved,
              fid_drawn, fid_distance >>

\* the most contours a mask holds
MaxContours == 3

\* frame.shape[0] * frame.shape[1], in pixels
FrameArea == 100

\* what solvePnP can return for a quadrilateral: failure, or a pose whose
\* translation has the Z component z
PnPOutcomes == {[ret |-> FALSE, z |-> 0], [ret |-> TRUE, z |-> 1],
                [ret |-> TRUE, z |-> 2]}

\* a contour by what the loop asks of it: its contourArea (at the tenth of
\* the frame, or one pixel more), the number of vertices approxPolyDP
\* leaves, and the outcome of solvePnP on those vertices
Contours ==
    { [area |-> a, vertices |-> v, pnp |-> o] :
        a \in {FrameArea \div 10, FrameArea \div 10 + 1},
        v \in {3, 4}, o \in PnPOutcomes }

ContourLists == UNION { [1 .. n -> Contours] : n \in 0 .. MaxContours }

ExceedsMinArea_orEqual(c) == 10 * c.area >= FrameArea

\* cv2.contourArea(contour) > min_area, min_area = 0.1 * rows * cols
ExceedsMinArea(c) == 10 * c.area > FrameArea

\* len(approx) == 4
IsQuadrilateral(c) == c.vertices = 4

FidInit ==
    /\ fid_pc = "loop"
    /\ fid_contours \in ContourLists
    /\ fid_i = 1
    /\ fid_examined = {}
    /\ fid_solved = {}
    /\ fid_drawn = 0
    /\ fid_distance = <<>>

FidIdle ==
    /\ fid_pc = "off"
    /\ fid_contours = <<>>
    /\ fid_i = 1
    /\ fid_examined = {}
    /\ fid_solved = {}
    /\ fid_drawn = 0
    /\ fid_distance = <<>>

\* one iteration of the for loop (lines 95-121) on a contour below the
\* threshold, or above it and not a quadrilateral: the loop goes on
FidSkip ==
    /\ fid_pc = "loop"
    /\ fid_i <= Len(fid_contours)
    /\ LET c == fid_contours[fid_i] IN
         /\ ~ (ExceedsMinArea(c) /\ IsQuadrilateral(c))
         /\ fid_examined' = IF ExceedsMinArea(c) THEN fid_examined \cup {fid_i}
                                                 ELSE fid_examined
    /\ fid_i' = fid_i + 1
    /\ UNCHANGED << fid_pc, fid_contours, fid_solved, fid_drawn, fid_distance >>

\* one iteration on a quadrilateral above the threshold (lines 100-121):
\* the pose is solved, the distance taken and drawn if the solve succeeded,
\* and the break of line 121 leaves the loop; then lines 123-124
FidTarget ==
    /\ fid_pc = "loop"
    /\ fid_i <= Len(fid_contours)
    /\ LET c == fid_contours[fid_i] IN
         /\ ExceedsMinArea(c)
         /\ IsQuadrilateral(c)
         /\ fid_examined' = fid_examined \cup {fid_i}
         /\ fid_solved' = fid_solved \cup {fid_i}
         /\ IF c.pnp.ret
              THEN /\ fid_distance' = << c.pnp.z >>
                   /\ fid_drawn' = fid_i
              ELSE UNCHANGED << fid_distance, fid_drawn >>
    /\ fid_pc' = "done"
    /\ UNCHANGED << fid_contours, fid_i >>

\* the contours are exhausted: lines 123-124
FidReturn ==
    /\ fid_pc = "loop"
    /\ fid_i > Len(fid_contours)
    /\ fid_pc' = "done"
    /\ UNCHANGED << fid_contours, fid_i, fid_examined, fid_solved,
                    fid_drawn, fid_distance >>

\* =====================================================================
\* compute_depth_map and detect_objects_and_depth
\* (src/xeon_stream_depth.py:63-108) on one row of pixels: a bounding box is
\* the columns x+1 .. x+w of the row
\* =====================================================================
VARIABLES
    st_pc,            \* "off", "pair", "loop", "done"
    st_raw,           \* stereo.compute(left_gray, right_gray): 16 * disparity
    st_map,           \* the depth map compute_depth_map returns
    obj_contours,     \* what findContours returned, in its order
    obj_i,            \* the contour the for loop takes next
    obj_considered,   \* the contours whose bounding box was taken (line 96)
    obj_annotations   \* the boxes drawn on output_frame, with their depth

stVars == << st_pc, st_raw, st_map, obj_contours, obj_i, obj_considered,
             obj_annotations >>

\* the most contours an edge image holds
MaxObjects == 2

\* the columns of a frame
FrameWidth == 3

\* CONFIG['FOCAL_LENGTH'] in pixels, and CONFIG['BASELINE'] = 0.1 m in tenths
\* of a metre
FOCAL_LENGTH == 500
BASELINE_TENTHS == 1

\* StereoBM with numDisparities=16 gives every pixel 16 times its disparity
\* as a 16-bit integer, and -16 where no match was found
INVALID_DISPARITY == -16
RawValues == {INVALID_DISPARITY, 0, 16, 32}
RawRows == [1 .. FrameWidth -> RawValues]

\* a contour by what the loop asks of it: its contourArea and its
\* boundingRect; every box above the threshold, and one at the threshold
Boxes == { [x |-> x, w |-> w] : x \in 0 .. FrameWidth - 1, w \in 1 .. FrameWidth }
ObjContours ==
    { [area |-> FrameArea \div 10 + 1, box |-> b] :
        b \in {b \in Boxes : b.x + b.w <= FrameWidth} }
    \cup { [area |-> FrameArea \div 10, box |-> [x |-> 0, w |-> FrameWidth]] }
ObjContourLists == UNION { [1 .. n -> ObjContours] : n \in 0 .. MaxObjects }

RECURSIVE SeqMin(_)
SeqMin(q) == IF Len(q) = 1 THEN q[1] ELSE Min(q[1], SeqMin(Tail(q)))

RECURSIVE SeqMax(_)
SeqMax(q) == IF Len(q) = 1 THEN q[1] ELSE -Min(-q[1], -SeqMax(Tail(q)))

RECURSIVE SeqSum(_)
SeqSum(q) == IF q = <<>> THEN 0 ELSE q[1] + SeqSum(Tail(q))

\* cvRound of num / den, den > 0 and num >= 0: to the nearest integer, a
\* half to the even one
RoundHalfEven(num, den) ==
    LET q == num \div den
        r == num % den
    IN  IF 2 * r < den THEN q
        ELSE IF 2 * r > den THEN q + 1
        ELSE IF q % 2 = 0 THEN q ELSE q + 1

\* cv2.normalize(disparity, None, alpha=0, beta=255, NORM_MINMAX, CV_8U)
\* (line 76): the least value goes to 0 and the greatest to 255; an image of
\* one value has scale 0 and goes to 0 everywhere
Normalize(raw) ==
    LET lo == SeqMin(raw)
        hi == SeqMax(raw)
    IN  [px \in 1 .. Len(raw) |->
            IF hi = lo THEN 0
            ELSE RoundHalfEven((raw[px] - lo) * 255, hi - lo)]

\* depth_map[y:y+h, x:x+w]: a slice stops at the edge of the map
DepthRoi(depth_map, box) ==
    SubSeq(depth_map, box.x + 1, Min(box.x + box.w, Len(depth_map)))

IsPositive(v) == v > 0

\* depth_roi[depth_roi > 0] (line 99)
ValidDepth(depth_roi) == SelectSeq(depth_roi, IsPositive)

\* (FOCAL_LENGTH * BASELINE) / np.mean(valid_depth) in metres, as a fraction
DepthMeters(valid_depth) ==
    [num |-> FOCAL_LENGTH * BASELINE_TENTHS * Len(valid_depth),
     den |-> 10 * SeqSum(valid_depth)]

NextContour_break(i, n, large) == IF large THEN n + 1 ELSE i + 1

\* the for loop of line 93 has no break: after every contour comes the next
NextContour(i, n, large) == i + 1

StInit ==
    /\ st_pc = "pair"
    /\ st_raw \in RawRows
    /\ st_map = <<>>
    /\ obj_contours \in ObjContourLists
    /\ obj_i = 1
    /\ obj_considered = {}
    /\ obj_annotations = {}

StIdle ==
    /\ st_pc = "off"
    /\ st_raw = <<>>
    /\ st_map = <<>>
    /\ obj_contours = <<>>
    /\ obj_i = 1
    /\ obj_considered = {}
    /\ obj_annotations = {}

\* compute_depth_map on two frames (lines 63-77)
StComputeDepthMap ==
    /\ st_pc = "pair"
    /\ st_map' = Normalize(st_raw)
    /\ st_pc' = "loop"
    /\ UNCHANGED << st_raw, obj_contours, obj_i, obj_considered, obj_annotations >>

\* one iteration of the for loop (lines 93-107)
ObjStep ==
    /\ st_pc = "loop"
    /\ obj_i <= Len(obj_contours)
    /\ LET c == obj_contours[obj_i]
           valid_depth == ValidDepth(DepthRoi(st_map, c.box))
       IN  /\ obj_considered' = IF ExceedsMinArea(c)
                                  THEN obj_considered \cup {obj_i}
                                  ELSE obj_considered
           /\ obj_annotations' =
                 IF /\ ExceedsMinArea(c)
                    /\ Len(valid_depth) > 0
                    /\ SeqSum(valid_depth) > 0
                   THEN obj_annotations \cup
                          {[i |-> obj_i, sum |-> SeqSum(valid_depth),
                            count |-> Len(valid_depth),
                            depth |-> DepthMeters(valid_depth)]}
                   ELSE obj_annotations
           /\ obj_i' = NextContour(obj_i, Len(obj_contours), ExceedsMinArea(c))
    /\ UNCHANGED << st_pc, st_raw, st_map, obj_contours >>

\* the contours are exhausted: return output_frame (line 108)
ObjReturn ==
    /\ st_pc = "loop"
    /\ obj_i > Len(obj_contours)
    /\ st_pc' = "done"
    /\ UNCHANGED << st_raw, st_map, obj_contours, obj_i, obj_considered,
                    obj_annotations >>

\* =====================================================================
\* The image objects of xeon_stream_depth.py and server_stream_cal_1.py and
\* the names that refer to them: an image is a cell of the heap, a name holds
\* the index of a cell, 0 for None
\* =====================================================================
VARIABLES
    ref_prog,       \* "off", "depth" (xeon_stream_depth.py), "cal" (server_stream_cal_1.py)
    ref_pc,         \* "recv": main is in receive_frame; "ret": it has a frame
    ref_count,      \* the frames received so far
    heap,           \* the images: [kind, marks]: where the image came from,
                    \* and the number of drawings in its pixels
    ref_ret,        \* the frame receive_frame returned
    ref_cam,        \* and its camera
    ref_frames,     \* latest_frames: camera -> image
    ref_depth,      \* latest_depth, local to main
    ref_output,     \* latest_frame, local to main
    ref_edges,      \* latest_edges, local to main
    ref_held,       \* frame of a generate_mjpeg_stream generator
    ref_protected   \* the images decoded, stored under a name, or held

refVars == << ref_prog, ref_pc, ref_count, heap, ref_ret, ref_cam, ref_frames,
              ref_depth, ref_output, ref_edges, ref_held, ref_protected >>

NewImage(h, kind) ==
    [heap |-> Append(h, [kind |-> kind, marks |-> 0]), ref |-> Len(h) + 1]

FrameCopy_alias(h, id) == [heap |-> h, ref |-> id]

\* output_frame = frame.copy(): a new image with the content of the old
FrameCopy(h, id) ==
    [heap |-> Append(h, [kind |-> "copy", marks |-> h[id].marks]),
     ref |-> Len(h) + 1]

\* cv2.rectangle, cv2.putText, cv2.drawContours: they write into their
\* first argument
Draw(h, id) == [h EXCEPT ![id].marks = @ + 1]

\* compute_depth_map (xeon_stream_depth.py:63-77): cvtColor, compute and
\* normalize return new arrays
RefComputeDepthMap(h, left, right) == NewImage(h, "depth")

\* detect_objects_and_depth (lines 79-108); found: a region was annotated
RefDetectObjectsAndDepth(h, frame, depth_map, found) ==
    IF frame = 0 \/ depth_map = 0 THEN [heap |-> h, ref |-> frame]
    ELSE LET c == FrameCopy(h, frame) IN
         [heap |-> IF found THEN Draw(c.heap, c.ref) ELSE c.heap, ref |-> c.ref]

\* detect_framing_square (server_stream_cal_1.py:75-124); found: the pose of
\* a quadrilateral was solved
RefDetectFramingSquare(h, frame, found) ==
    LET c == FrameCopy(h, frame)
        d == IF found THEN Draw(c.heap, c.ref) ELSE c.heap
        e == NewImage(d, "edges")
    IN  [heap |-> e.heap, output_frame |-> c.ref, edges |-> e.ref]

RefInit ==
    /\ ref_prog \in {"depth", "cal"}
    /\ ref_pc = "recv"
    /\ ref_count = 0
    /\ heap = <<>>
    /\ ref_ret = 0
    /\ ref_cam = 0
    /\ ref_frames = [c \in {0, 1} |-> 0]
    /\ ref_depth = 0
    /\ ref_output = 0
    /\ ref_edges = 0
    /\ ref_held = 0
    /\ ref_protected = {}

RefIdle ==
    /\ ref_prog = "off"
    /\ ref_pc = "recv"
    /\ ref_count = 0
    /\ heap = <<>>
    /\ ref_ret = 0
    /\ ref_cam = 0
    /\ ref_frames = [c \in {0, 1} |-> 0]
    /\ ref_depth = 0
    /\ ref_output = 0
    /\ ref_edges = 0
    /\ ref_held = 0
    /\ ref_protected = {}

\* receive_frame returns a frame cv2.imdecode made
RefReceive ==
    /\ ref_prog \in {"depth", "cal"}
    /\ ref_pc = "recv"
    /\ ref_count <= MaxFrames
    /\ ref_count' = ref_count + 1
    /\ \E cam \in {0, 1} :
         /\ ref_prog = "cal" => cam = EXPECTED_CAMERA
         /\ ref_cam' = cam
    /\ LET n == NewImage(heap, "decoded") IN
         /\ heap' = n.heap
         /\ ref_ret' = n.ref
         /\ ref_protected' = ref_protected \cup {n.ref}
    /\ ref_pc' = "ret"
    /\ UNCHANGED << ref_prog, ref_frames, ref_depth, ref_output, ref_edges, ref_held >>

\* xeon_stream_depth.py:179-187
RefDepthUpdate ==
    /\ ref_prog = "depth"
    /\ ref_pc = "ret"
    /\ LET stored == [ref_frames EXCEPT ![ref_cam] = ref_ret] IN
       IF stored[0] # 0 /\ stored[1] # 0
       THEN \E found0, found1 \in BOOLEAN :
              LET d  == RefComputeDepthMap(heap, stored[0], stored[1])
                  a0 == RefDetectObjectsAndDepth(d.heap, stored[0], d.ref, found0)
                  a1 == RefDetectObjectsAndDepth(a0.heap, stored[1], d.ref, found1)
              IN  /\ heap' = a1.heap
                  /\ ref_depth' = d.ref
                  /\ ref_frames' = [c \in {0, 1} |-> IF c = 0 THEN a0.ref ELSE a1.ref]
                  /\ ref_protected' = ref_protected \cup {d.ref, a0.ref, a1.ref}
       ELSE /\ ref_frames' = stored
            /\ UNCHANGED << heap, ref_depth, ref_protected >>
    /\ ref_pc' = "recv"
    /\ UNCHANGED << ref_prog, ref_count, ref_ret, ref_cam, ref_output, ref_edges,
                    ref_held >>

\* server_stream_cal_1.py:192-199
RefCalUpdate ==
    /\ ref_prog = "cal"
    /\ ref_pc = "ret"
    /\ \E found \in BOOLEAN :
         LET r == RefDetectFramingSquare(heap, ref_ret, found) IN
           /\ heap' = r.heap
           /\ ref_output' = r.output_frame
           /\ ref_edges' = r.edges
           /\ ref_protected' = ref_protected \cup {r.output_frame, r.edges}
    /\ ref_pc' = "recv"
    /\ UNCHANGED << ref_prog, ref_count, ref_ret, ref_cam, ref_frames, ref_depth,
                    ref_held >>

\* generate_mjpeg_stream takes latest_frames.get(cam_id); cv2.imencode reads it
RefViewerRead ==
    /\ ref_prog = "depth"
    /\ \E c \in {0, 1} :
         /\ ref_frames[c] # ref_held
         /\ ref_held' = ref_frames[c]
    /\ ref_protected' = ref_protected \cup ({ref_held'} \ {0})
    /\ UNCHANGED << ref_prog, ref_pc, ref_count, heap, ref_ret, ref_cam, ref_frames,
                    ref_depth, ref_output, ref_edges >>

\* =====================================================================
\* The capture exchange: server.py (handle_client, main) and the clients
\* running client.py (run_client)
\* =====================================================================
VARIABLES
    cl_pc,        \* per client: "start", "connected", "sent", "done"
    cl_sock,      \* the client's socket: "none", "open", "closed"
    cl_image,     \* packets of image data the client sent; 0: nothing sent
    cl_data,      \* what the client's one recv returned, in order
    cl_result,    \* "none", "received", "empty", "timeout", "nocamera"
    to_client,    \* per client: the server's messages not yet read
    backlog,      \* connections the listening socket holds, in order
    conn_state,   \* the server's side: "none", "backlog", "open", "closed"
    srv_pc,       \* "accept", "cmd", "size", "data", "save", "ai", "confirm", "dead"
    srv_conn,     \* the client handle_client is serving, 0 for none
    srv_size,     \* image_size, in packets
    srv_got,      \* len(image_data), in packets
    srv_outcome   \* per client: "none", "ok", or the exception handled

capVars == << cl_pc, cl_sock, cl_image, cl_data, cl_result, to_client, backlog,
              conn_state, srv_pc, srv_conn, srv_size, srv_got, srv_outcome >>

\* the clients that connect, and the most packets an image takes
MaxClients == 2
MaxPackets == 2
Clients == 1 .. MaxClients

\* the two messages of server.py (lines 74 and 109)
CAPTURE == "CAPTURE"
CONFIRMATION == "Image received and analyzed by AI"

Caught_connection_only(exc) == exc = "ConnectionError"

\* except ConnectionError, then except Exception (lines 111-114): every
\* exception of handle_client's try block is handled
Caught(exc) == exc = "ConnectionError" \/ exc = "Exception"

CapInit ==
    /\ cl_pc = [c \in Clients |-> "start"]
    /\ cl_sock = [c \in Clients |-> "none"]
    /\ cl_image = [c \in Clients |-> 0]
    /\ cl_data = [c \in Clients |-> <<>>]
    /\ cl_result = [c \in Clients |-> "none"]
    /\ to_client = [c \in Clients |-> <<>>]
    /\ backlog = <<>>
    /\ conn_state = [c \in Clients |-> "none"]
    /\ srv_pc = "accept"
    /\ srv_conn = 0
    /\ srv_size = 0
    /\ srv_got = 0
    /\ srv_outcome = [c \in Clients |-> "none"]

CapIdle ==
    /\ cl_pc = <<>>
    /\ cl_sock = <<>>
    /\ cl_image = <<>>
    /\ cl_data = <<>>
    /\ cl_result = <<>>
    /\ to_client = <<>>
    /\ backlog = <<>>
    /\ conn_state = <<>>
    /\ srv_pc = "off"
    /\ srv_conn = 0
    /\ srv_size = 0
    /\ srv_got = 0
    /\ srv_outcome = <<>>

\* ---------------------------------------------------------------------
\* client.py
\* ---------------------------------------------------------------------
\* lines 10-13 and 34: the camera does not open
ClNoCamera(c) ==
    /\ cl_pc[c] = "start"
    /\ cl_pc' = [cl_pc EXCEPT ![c] = "done"]
    /\ cl_result' = [cl_result EXCEPT ![c] = "nocamera"]
    /\ UNCHANGED << cl_sock, cl_image, cl_data, to_client, backlog, conn_state,
                    srv_pc, srv_conn, srv_size, srv_got, srv_outcome >>

\* lines 15-17: the listening socket completes the connection, whatever
\* the server is doing
ClConnect(c) ==
    /\ cl_pc[c] = "start"
    /\ srv_pc # "dead"
    /\ cl_pc' = [cl_pc EXCEPT ![c] = "connected"]
    /\ cl_sock' = [cl_sock EXCEPT ![c] = "open"]
    /\ backlog' = Append(backlog, c)
    /\ conn_state' = [conn_state EXCEPT ![c] = "backlog"]
    /\ UNCHANGED << cl_image, cl_data, cl_result, to_client, srv_pc, srv_conn,
                    srv_size, srv_got, srv_outcome >>

\* lines 18-27: the frame is captured, encoded and sent, length first, or
\* nothing is sent; nothing is read before
ClSend(c) ==
    /\ cl_pc[c] = "connected"
    /\ \E n \in 0 .. MaxPackets : cl_image' = [cl_image EXCEPT ![c] = n]
    /\ cl_pc' = [cl_pc EXCEPT ![c] = "sent"]
    /\ UNCHANGED << cl_sock, cl_data, cl_result, to_client, backlog, conn_state,
                    srv_pc, srv_conn, srv_size, srv_got, srv_outcome >>

\* lines 28-34: one recv(1024) with the timeout of 5 seconds, the print of
\* what it returned, and the end of the with block, which closes the socket
ClRecv(c) ==
    /\ cl_pc[c] = "sent"
    /\ IF to_client[c] # <<>>
         THEN /\ cl_data' = [cl_data EXCEPT ![c] = to_client[c]]
              /\ cl_result' = [cl_result EXCEPT ![c] = "received"]
         ELSE /\ cl_result' = [cl_result EXCEPT ![c] =
                                 IF conn_state[c] = "closed" THEN "empty"
                                                             ELSE "timeout"]
              /\ UNCHANGED cl_data
    /\ to_client' = [to_client EXCEPT ![c] = <<>>]
    /\ cl_sock' = [cl_sock EXCEPT ![c] = "closed"]
    /\ cl_pc' = [cl_pc EXCEPT ![c] = "done"]
    /\ UNCHANGED << cl_image, backlog, conn_state, srv_pc, srv_conn, srv_size,
                    srv_got, srv_outcome >>

\* ---------------------------------------------------------------------
\* server.py
\* ---------------------------------------------------------------------
\* lines 111-117: the handler of the exception if there is one, the finally
\* clause, and the return to main's loop (lines 131-134); an exception no
\* handler takes leaves main
SrvFinally(outcome) ==
    /\ conn_state' = [conn_state EXCEPT ![srv_conn] = "closed"]
    /\ srv_outcome' = [srv_outcome EXCEPT ![srv_conn] = outcome]
    /\ srv_pc' = IF outcome = "ok" \/ Caught(outcome) THEN "accept" ELSE "dead"
    /\ srv_conn' = 0
    /\ srv_size' = 0
    /\ srv_got' = 0

\* conn.sendall to a peer: the bytes are queued for it; when the peer has
\* closed, they are lost or the call raises BrokenPipeError or
\* ConnectionResetError
SrvSend(msg, next) ==
    \/ /\ cl_sock[srv_conn] = "open"
       /\ to_client' = [to_client EXCEPT ![srv_conn] = Append(@, msg)]
       /\ next
    \/ /\ cl_sock[srv_conn] = "closed"
       /\ UNCHANGED to_client
       /\ next
    \/ /\ cl_sock[srv_conn] = "closed"
       /\ UNCHANGED to_client
       /\ SrvFinally("ConnectionError")

\* line 133: accept takes the oldest connection; line 134 calls handle_client
SrvAccept ==
    /\ srv_pc = "accept"
    /\ backlog # <<>>
    /\ srv_conn' = Head(backlog)
    /\ backlog' = Tail(backlog)
    /\ conn_state' = [conn_state EXCEPT ![Head(backlog)] = "open"]
    /\ srv_pc' = "cmd"
    /\ UNCHANGED << cl_pc, cl_sock, cl_image, cl_data, cl_result, to_client,
                    srv_size, srv_got, srv_outcome >>

\* line 74
SrvSendCapture ==
    /\ srv_pc = "cmd"
    /\ SrvSend(CAPTURE,
               /\ srv_pc' = "size"
               /\ UNCHANGED << conn_state, srv_conn, srv_size, srv_got, srv_outcome >>)
    /\ UNCHANGED << cl_pc, cl_sock, cl_image, cl_data, cl_result, backlog >>

\* lines 77-80: recv waits for the length, and returns b'' when the client
\* has closed without sending
SrvRecvSize ==
    /\ srv_pc = "size"
    /\ \/ /\ cl_image[srv_conn] > 0
          /\ srv_size' = cl_image[srv_conn]
          /\ srv_pc' = "data"
          /\ UNCHANGED << conn_state, srv_conn, srv_got, srv_outcome >>
       \/ /\ cl_image[srv_conn] = 0
          /\ cl_sock[srv_conn] = "closed"
          /\ SrvFinally("ConnectionError")
    /\ UNCHANGED << cl_pc, cl_sock, cl_image, cl_data, cl_result, to_client, backlog >>

\* lines 86-90: one recv(4096) of the loop; sendall has put the whole image
\* on the connection
SrvRecvData ==
    /\ srv_pc = "data"
    /\ srv_got < srv_size
    /\ srv_got' = srv_got + 1
    /\ srv_pc' = IF srv_got + 1 < srv_size THEN "data" ELSE "save"
    /\ UNCHANGED << cl_pc, cl_sock, cl_image, cl_data, cl_result, to_client,
                    backlog, conn_state, srv_conn, srv_size, srv_outcome >>

\* lines 95-96: the image is written to a file, or open or write raises OSError
SrvSave ==
    /\ srv_pc = "save"
    /\ \/ /\ srv_pc' = "ai"
          /\ UNCHANGED << conn_state, srv_conn, srv_size, srv_got, srv_outcome >>
       \/ SrvFinally("Exception")
    /\ UNCHANGED << cl_pc, cl_sock, cl_image, cl_data, cl_result, to_client, backlog >>

\* line 101: get_image_description returns a description or its own error
\* text, or raises what it does not catch (a reply that is not an object, a
\* 'response' that is not a string)
SrvDescribe ==
    /\ srv_pc = "ai"
    /\ \/ /\ srv_pc' = "confirm"
          /\ UNCHANGED << conn_state, srv_conn, srv_size, srv_got, srv_outcome >>
       \/ SrvFinally("Exception")
    /\ UNCHANGED << cl_pc, cl_sock, cl_image, cl_data, cl_result, to_client, backlog >>

\* line 109, and the finally clause
SrvConfirm ==
    /\ srv_pc = "confirm"
    /\ SrvSend(CONFIRMATION, SrvFinally("ok"))
    /\ UNCHANGED << cl_pc, cl_sock, cl_image, cl_data, cl_result, backlog >>

\* the state of the function-level models
auxVars == << hdrVars, fidVars, stVars, refVars, capVars >>
AuxIdle == HdrIdle /\ FidIdle /\ StIdle /\ RefIdle /\ CapIdle

\* =====================================================================
\* State of the three stream servers
\* =====================================================================
VARIABLES
    windows,            \* xeon_stream.py: cv2.imshow windows, cam_id -> edge image
    latest_frame,       \* server_stream_cal_1.py: module global (line 30)
    latest_edges,       \* server_stream_cal_1.py: module global (line 31)
    main_latest_frame,  \* server_stream_cal_1.py: the name latest_frame inside main (line 198)
    main_latest_edges,  \* server_stream_cal_1.py: the name latest_edges inside main (line 199)
    output_frame,       \* server_stream_cal_1.py: main local (line 192)
    edges,              \* server_stream_cal_1.py: main local (line 192)
    latest_frames,      \* xeon_stream_depth.py: module global dict (line 29)
    latest_depth,       \* xeon_stream_depth.py: module global (line 30)
    main_latest_depth,  \* xeon_stream_depth.py: the name latest_depth inside main (line 183)
    frame_lock,         \* threading.Lock: Unlocked, HeldByMain or HeldBy(viewer)
    v_pc,               \* per viewer: "idle" (sleeping), "locked" (inside with frame_lock), "got"
    v_type,             \* per viewer: the data_type of its generate_mjpeg_stream
    v_frame,            \* per viewer: the local name `frame`
    stable,             \* the cache as the last completed update step left it
    lock_work           \* what main did while it last held frame_lock: "store", "depth", "annotate"

xsVars == << windows >>
calVars == << latest_frame, latest_edges, main_latest_frame, main_latest_edges,
              output_frame, edges >>
depVars == << latest_frames, latest_depth, main_latest_depth >>
viewVars == << frame_lock, v_pc, v_type, v_frame, stable, lock_work >>

vars == << auxVars, piVars, hsVars, connVars, pc, sockVars, rfVars, xsVars, calVars, depVars, viewVars,
           now, wdVars >>

Viewers == 1 .. NumViewers

\* the states of frame_lock
Unlocked == [owner |-> "nobody", id |-> 0]
HeldByMain == [owner |-> "main", id |-> 0]
HeldBy(v) == [owner |-> "viewer", id |-> v]

AppInit ==
    /\ windows = << >>
    /\ latest_frame = None
    /\ latest_edges = None
    /\ main_latest_frame = None
    /\ main_latest_edges = None
    /\ output_frame = None
    /\ edges = None
    /\ latest_frames = [c \in {0, 1} |-> None]
    /\ latest_depth = None
    /\ main_latest_depth = None
    /\ frame_lock = Unlocked
    /\ v_pc = [v \in Viewers |-> "idle"]
    /\ v_type = [v \in Viewers |-> "none"]
    /\ v_frame = [v \in Viewers |-> None]
    /\ stable = [frames |-> [c \in {0, 1} |-> None], depth |-> None,
                 frame |-> None, edges |-> None]
    /\ lock_work = {}
    /\ now = 0
    /\ last_frame_time = 0
    /\ lag_warned = FALSE

\* the handshake server before it is started, kept still
HsIdle ==
    /\ hs_pc = "listen"
    /\ hs_doc = [kind |-> "garbage", fields |-> << >>, elems |-> {}]
    /\ hs_wire = <<>>
    /\ hs_pos = 0
    /\ hs_peer = "open"
    /\ length_bytes = <<>>
    /\ payload = None
    /\ hs_sent = <<>>
    /\ hs_outcome = "none"
    /\ hs_client = "unbound"
    /\ hs_server = "listening"

\* ---------------------------------------------------------------------
\* the staleness check at the end of every main loop
\* (server_stream_cal_1.py:202-204, xeon_stream_depth.py:189-191,
\*  xeon_stream.py:92-94)
\* ---------------------------------------------------------------------
Stale_never(t, last) == FALSE

\* time.time() - last_frame_time > CONFIG['FRAME_TIMEOUT']
Stale(t, last) == t - last > FRAME_TIMEOUT

\* the warning, when due, and last_frame_time = time.time()
Watchdog ==
    /\ lag_warned' = Stale(now, last_frame_time)
    /\ last_frame_time' = now

\* a second passes
Tick ==
    /\ now < MaxTime
    /\ now' = now + 1

\* ---------------------------------------------------------------------
\* accept and cleanup: the same lines in the three servers
\* (xeon_stream.py:71-74,100-107)
\* ---------------------------------------------------------------------
\* client, addr = server.accept()
StreamAccept ==
    /\ pc = "listen"
    /\ pc' = "hdr"
    /\ client' = "open"
    /\ last_frame_time' = now
    /\ UNCHANGED << connVars, server, rfVars, lag_warned >>

\* server.accept() raises socket.timeout: except Exception logs it, and the
\* finally clause evaluates client.close() with `client` unbound
StreamAcceptTimeout ==
    /\ pc = "listen"
    /\ pc' = "crashed"
    /\ UNCHANGED << connVars, sockVars, rfVars, wdVars >>

\* ---------------------------------------------------------------------
\* xeon_stream.py main (lines 76-107)
\* ---------------------------------------------------------------------
\* apply_edge_detection(frame)
ApplyEdgeDetection(frame) == Img("edges", frame.v[2], 0)

\* lines 80-82: `continue`
XsSkip ==
    /\ pc = "ret" /\ Invalid(ret)
    /\ pc' = "hdr"
    /\ RfDiscard
    /\ UNCHANGED << connVars, sockVars, windows, wdVars >>

\* lines 85-98, the staleness check among them, and, on 'q', the finally
\* clause (lines 102-107)
XsShow ==
    /\ pc = "ret" /\ ~Invalid(ret)
    /\ \E q \in BOOLEAN :
         IF q
         THEN /\ pc' = "done"
              /\ client' = "closed"
              /\ server' = "closed"
              /\ windows' = << >>
         ELSE /\ pc' = "hdr"
              /\ windows' = [c \in DOMAIN windows \cup {ret.cam} |->
                               IF c = ret.cam THEN ApplyEdgeDetection(ret.frame)
                               ELSE windows[c]]
              /\ UNCHANGED sockVars
    /\ Watchdog
    /\ RfDiscard
    /\ UNCHANGED connVars


\* ---------------------------------------------------------------------
\* generate_mjpeg_stream: one viewer per generator
\* ---------------------------------------------------------------------
LockFree_ignored(v) == TRUE

\* `with frame_lock:` can be entered
LockFree(v) == frame_lock = Unlocked

LockAfterRead_kept(v) == HeldBy(v)

\* the `with frame_lock:` block of a generator ends once `frame` is bound:
\* the lock is released before imencode, yield and sleep
LockAfterRead(v) == Unlocked

\* a generator of data_type dt, run by viewer thread v, enters `with frame_lock:`
\* (a thread whose client has gone serves the next request, of any data_type)
ViewerLock(v, types) ==
    /\ v_pc[v] = "idle"
    /\ LockFree(v)
    /\ frame_lock' = HeldBy(v)
    /\ v_pc' = [v_pc EXCEPT ![v] = "locked"]
    /\ \E dt \in types : v_type' = [v_type EXCEPT ![v] = dt]
    /\ UNCHANGED << v_frame, stable, lock_work >>

\* the viewer encodes and yields its frame when it is not None, then sleeps
ViewerYield(v) ==
    /\ v_pc[v] = "got"
    /\ v_pc' = [v_pc EXCEPT ![v] = "idle"]
    /\ v_type' = [v_type EXCEPT ![v] = "none"]
    /\ v_frame' = [v_frame EXCEPT ![v] = None]
    /\ UNCHANGED << frame_lock, stable, lock_work >>

\* ---------------------------------------------------------------------
\* server_stream_cal_1.py
\* ---------------------------------------------------------------------
CalTypes == {"frame", "edges"}

\* the blue square is found in the frame (lines 81-121): decided by the pixels
SquareDetected(frame) == Len(frame.v[2]) > 2

\* detect_framing_square(frame): (output_frame, edges, distance is not None)
DetectFramingSquare(frame) ==
    [output_frame |-> Img("output", frame.v[2], IF SquareDetected(frame) THEN 1 ELSE 0),
     edges |-> Img("edges", frame.v[2], 0),
     detected |-> SquareDetected(frame)]

CalSkip_fatal ==
    /\ pc = "ret" /\ Invalid(ret)
    /\ pc' = "done"
    /\ client' = "closed"
    /\ server' = "closed"
    /\ RfDiscard
    /\ UNCHANGED << connVars, calVars, viewVars, wdVars >>

\* lines 184-186: `continue`
CalSkip ==
    /\ pc = "ret" /\ Invalid(ret)
    /\ pc' = "hdr"
    /\ RfDiscard
    /\ UNCHANGED << connVars, sockVars, calVars, viewVars, wdVars >>

\* lines 187-189: `continue`
CalUnexpected ==
    /\ pc = "ret" /\ ~Invalid(ret)
    /\ ret.cam # EXPECTED_CAMERA
    /\ pc' = "hdr"
    /\ RfDiscard
    /\ UNCHANGED << connVars, sockVars, calVars, viewVars, wdVars >>

\* lines 192-194
CalDetect ==
    /\ pc = "ret" /\ ~Invalid(ret)
    /\ ret.cam = EXPECTED_CAMERA
    /\ output_frame' = DetectFramingSquare(ret.frame).output_frame
    /\ edges' = DetectFramingSquare(ret.frame).edges
    /\ pc' = "want_lock"
    /\ RfDiscard
    /\ UNCHANGED << connVars, sockVars, latest_frame, latest_edges,
                    main_latest_frame, main_latest_edges, viewVars, wdVars >>

\* line 197: main enters `with frame_lock:`
CalAcquire ==
    /\ pc = "want_lock"
    /\ frame_lock = Unlocked
    /\ frame_lock' = HeldByMain
    /\ lock_work' = {}
    /\ pc' = "cs"
    /\ UNCHANGED << connVars, sockVars, rfVars, calVars, v_pc, v_type, v_frame, stable,
                    wdVars >>

\* lines 198-204: main has no `global` statement, so the two assignments bind
\* names local to main; the module globals of lines 30-31 are not written
CalStore ==
    /\ pc = "cs"
    /\ main_latest_frame' = output_frame
    /\ main_latest_edges' = edges
    /\ frame_lock' = Unlocked
    /\ stable' = [stable EXCEPT !.frame = latest_frame, !.edges = latest_edges]
    /\ lock_work' = lock_work \cup {"store"}
    /\ Watchdog
    /\ pc' = "hdr"
    /\ UNCHANGED << connVars, sockVars, rfVars, latest_frame, latest_edges,
                    output_frame, edges, v_pc, v_type, v_frame >>

\* line 130: frame = latest_frame if data_type == 'frame' else latest_edges
CalViewerRead(v) ==
    /\ v_pc[v] = "locked"
    /\ v_frame' = [v_frame EXCEPT ![v] =
                      IF v_type[v] = "frame" THEN latest_frame ELSE latest_edges]
    /\ frame_lock' = LockAfterRead(v)
    /\ v_pc' = [v_pc EXCEPT ![v] = "got"]
    /\ UNCHANGED << v_type, stable, lock_work >>

\* ---------------------------------------------------------------------
\* xeon_stream_depth.py
\* ---------------------------------------------------------------------
DepthTypes == {"0", "1", "depth"}

\* int(data_type)
IntOf(s) == CASE s = "0" -> 0 [] s = "1" -> 1 [] OTHER -> 2

\* latest_frames.get(cam_id)
DictGet(d, k) == IF k \in DOMAIN d THEN d[k] ELSE None

\* d[k] = x
DictSet(d, k, x) == [c \in DOMAIN d \cup {k} |-> IF c = k THEN x ELSE d[c]]

\* compute_depth_map(left_frame, right_frame)
ComputeDepthMap(left, right) ==
    IF left = None \/ right = None THEN None
    ELSE Img("depth", <<left.v, right.v>>, 0)

\* a contour above 10% of the frame with positive disparity is found (lines 93-102)
ObjectDetected(frame, depth_map) == Len(frame.v[2]) > 2

\* detect_objects_and_depth(frame, depth_map): a copy of frame, annotated
DetectObjectsAndDepth(frame, depth_map) ==
    IF frame = None \/ depth_map = None THEN frame
    ELSE Img("output", frame.v[2],
             frame.v[3] + (IF ObjectDetected(frame, depth_map) THEN 1 ELSE 0))

\* lines 174-176: `continue`
DepthSkip ==
    /\ pc = "ret" /\ Invalid(ret)
    /\ pc' = "hdr"
    /\ RfDiscard
    /\ UNCHANGED << connVars, sockVars, depVars, viewVars, wdVars >>

\* lines 179-180: main enters `with frame_lock:` and stores the frame
DepthLockAndStore ==
    /\ pc = "ret" /\ ~Invalid(ret)
    /\ frame_lock = Unlocked
    /\ frame_lock' = HeldByMain
    /\ latest_frames' = DictSet(latest_frames, ret.cam, ret.frame)
    /\ lock_work' = {"store"}
    /\ pc' = "cs"
    /\ RfDiscard
    /\ UNCHANGED << connVars, sockVars, latest_depth, main_latest_depth,
                    v_pc, v_type, v_frame, stable, wdVars >>

BothAvailable_either == latest_frames[0] # None \/ latest_frames[1] # None

\* line 182: latest_frames[0] is not None and latest_frames[1] is not None
BothAvailable == latest_frames[0] # None /\ latest_frames[1] # None

\* lines 182-185; when a slot is empty the block ends here (lines 187-191).
\* main has no `global` statement: latest_depth is a name local to main
DepthCompute ==
    /\ pc = "cs"
    /\ IF BothAvailable
       THEN LET d == ComputeDepthMap(latest_frames[0], latest_frames[1]) IN
            /\ main_latest_depth' = d
            /\ latest_frames' = DictSet(latest_frames, 0,
                                        DetectObjectsAndDepth(latest_frames[0], d))
            /\ pc' = "cs_ann1"
            /\ lock_work' = lock_work \cup {"depth", "annotate"}
            /\ UNCHANGED << frame_lock, stable, wdVars >>
       ELSE /\ frame_lock' = Unlocked
            /\ stable' = [stable EXCEPT !.frames = latest_frames, !.depth = latest_depth]
            /\ pc' = "hdr"
            /\ Watchdog
            /\ UNCHANGED << latest_frames, main_latest_depth, lock_work >>
    /\ UNCHANGED << connVars, sockVars, rfVars, latest_depth, v_pc, v_type, v_frame >>

\* lines 186-191: the second annotation, and the end of the with block
DepthAnnotate1 ==
    /\ pc = "cs_ann1"
    /\ latest_frames' = DictSet(latest_frames, 1,
                                DetectObjectsAndDepth(latest_frames[1], main_latest_depth))
    /\ frame_lock' = Unlocked
    /\ stable' = [stable EXCEPT !.frames = latest_frames', !.depth = latest_depth]
    /\ lock_work' = lock_work \cup {"annotate"}
    /\ Watchdog
    /\ pc' = "hdr"
    /\ UNCHANGED << connVars, sockVars, rfVars, latest_depth, main_latest_depth,
                    v_pc, v_type, v_frame >>

\* lines 114-118
DepthViewerRead(v) ==
    /\ v_pc[v] = "locked"
    /\ v_frame' = [v_frame EXCEPT ![v] =
                      IF v_type[v] = "depth" THEN latest_depth
                      ELSE DictGet(latest_frames, IntOf(v_type[v]))]
    /\ frame_lock' = LockAfterRead(v)
    /\ v_pc' = [v_pc EXCEPT ![v] = "got"]
    /\ UNCHANGED << v_type, stable, lock_work >>

\* =====================================================================
\* Specifications
\* =====================================================================
streamVars == << connVars, pc, sockVars, rfVars >>
appVars == << xsVars, calVars, depVars, viewVars >>

\* what every stream server leaves alone while receive_frame or the peer acts
Receive(A) == A /\ UNCHANGED << auxVars, now, piVars, hsVars, appVars >>
Peer(A) == A /\ UNCHANGED << auxVars, now, piVars, wdVars, pc, sockVars, rfVars, hsVars, appVars >>
View(A) == A /\ UNCHANGED << auxVars, now, piVars, wdVars, hsVars, streamVars, xsVars, calVars, depVars >>

Pi(A) == A /\ UNCHANGED << auxVars, now, wdVars, hsVars, streamVars, appVars >>
Hs(A) == A /\ UNCHANGED << auxVars, now, piVars, wdVars, streamVars, appVars >>

\* every program before it is started
progVars == << now, piVars, wdVars, hsVars, streamVars, appVars >>
ProgIdle == HsIdle /\ ConnInit(FALSE) /\ AppInit /\ PiIdle

\* the header functions, for every pair of field values
InitHeader == ProgIdle /\ HdrInit /\ FidIdle /\ StIdle /\ RefIdle /\ CapIdle
NextHeader ==
    \/ HeaderEncode /\ UNCHANGED << progVars, fidVars, stVars, refVars, capVars >>
    \/ HeaderDecode /\ UNCHANGED << progVars, fidVars, stVars, refVars, capVars >>
SpecHeader == InitHeader /\ [][NextHeader]_vars

\* detect_framing_square, for every list of contours
InitFiducial == ProgIdle /\ FidInit /\ HdrIdle /\ StIdle /\ RefIdle /\ CapIdle
NextFiducial ==
    \/ FidSkip /\ UNCHANGED << progVars, hdrVars, stVars, refVars, capVars >>
    \/ FidTarget /\ UNCHANGED << progVars, hdrVars, stVars, refVars, capVars >>
    \/ FidReturn /\ UNCHANGED << progVars, hdrVars, stVars, refVars, capVars >>
SpecFiducial == InitFiducial /\ [][NextFiducial]_vars

\* compute_depth_map and detect_objects_and_depth, for every disparity row
\* and every list of contours
InitStereo == ProgIdle /\ StInit /\ HdrIdle /\ FidIdle /\ RefIdle /\ CapIdle
NextStereo ==
    \/ StComputeDepthMap /\ UNCHANGED << progVars, hdrVars, fidVars, refVars, capVars >>
    \/ ObjStep /\ UNCHANGED << progVars, hdrVars, fidVars, refVars, capVars >>
    \/ ObjReturn /\ UNCHANGED << progVars, hdrVars, fidVars, refVars, capVars >>
SpecStereo == InitStereo /\ [][NextStereo]_vars

\* the image objects of the two perception programs
InitRefs == ProgIdle /\ RefInit /\ HdrIdle /\ FidIdle /\ StIdle /\ CapIdle
NextRefs ==
    \/ RefReceive /\ UNCHANGED << progVars, hdrVars, fidVars, stVars, capVars >>
    \/ RefDepthUpdate /\ UNCHANGED << progVars, hdrVars, fidVars, stVars, capVars >>
    \/ RefCalUpdate /\ UNCHANGED << progVars, hdrVars, fidVars, stVars, capVars >>
    \/ RefViewerRead /\ UNCHANGED << progVars, hdrVars, fidVars, stVars, capVars >>
SpecRefs == InitRefs /\ [][NextRefs]_vars

\* server.py and the clients running client.py
funVars == << hdrVars, fidVars, stVars, refVars >>
InitCapture == ProgIdle /\ CapInit /\ HdrIdle /\ FidIdle /\ StIdle /\ RefIdle
NextCapture ==
    \/ \E c \in Clients : ClNoCamera(c) /\ UNCHANGED << progVars, funVars >>
    \/ \E c \in Clients : ClConnect(c) /\ UNCHANGED << progVars, funVars >>
    \/ \E c \in Clients : ClSend(c) /\ UNCHANGED << progVars, funVars >>
    \/ \E c \in Clients : ClRecv(c) /\ UNCHANGED << progVars, funVars >>
    \/ SrvAccept /\ UNCHANGED << progVars, funVars >>
    \/ SrvSendCapture /\ UNCHANGED << progVars, funVars >>
    \/ SrvRecvSize /\ UNCHANGED << progVars, funVars >>
    \/ SrvRecvData /\ UNCHANGED << progVars, funVars >>
    \/ SrvSave /\ UNCHANGED << progVars, funVars >>
    \/ SrvDescribe /\ UNCHANGED << progVars, funVars >>
    \/ SrvConfirm /\ UNCHANGED << progVars, funVars >>
SpecCapture == InitCapture /\ [][NextCapture]_vars

\* the handshake server alone (xeon_handshake.py), for every document a peer may send
InitHandshake == HsInit(Docs) /\ ConnInit(FALSE) /\ AppInit /\ PiIdle /\ AuxIdle
NextHandshake ==
    \/ Hs(HsAccept)
    \/ Hs(HsAcceptTimeout)
    \/ Hs(HsPeerClose)
    \/ Hs(HsPeerReset)
    \/ Hs(HsRecvLen)
    \/ Hs(HsRecvPayload)
SpecHandshake == InitHandshake /\ [][NextHandshake]_vars

\* the handshake client alone (pi_handshake.py), for every behaviour of its peer
InitPi == PiInit /\ HsIdle /\ ConnInit(FALSE) /\ AppInit /\ AuxIdle
NextPi ==
    \/ Pi(PiBegin)
    \/ Pi(PiGiveUp)
    \/ Pi(PiConnect)
    \/ Pi(PiRecvReply)
    \/ Pi(PiSleep)
SpecPi == InitPi /\ [][NextPi]_vars

\* the plain stream receiver (xeon_stream.py), on a network that splits reads
InitStream == HsIdle /\ ConnInit(TRUE) /\ AppInit /\ PiIdle /\ AuxIdle
NextStream ==
    \/ Receive(StreamAccept)
    \/ Receive(StreamAcceptTimeout)
    \/ Peer(PeerSendFrame(StreamFrames))
    \/ Peer(PeerClose)
    \/ Peer(PeerReset)
    \/ Receive(RecvHeader)
    \/ Receive(RecvChunk)
    \/ XsSkip /\ UNCHANGED << auxVars, now, piVars, hsVars, calVars, depVars, viewVars >>
    \/ XsShow /\ UNCHANGED << auxVars, now, piVars, hsVars, calVars, depVars, viewVars >>
SpecStream == InitStream /\ [][NextStream]_vars

\* the ingestion thread of the fiducial server (server_stream_cal_1.py main)
CalMainNext ==
    \/ Receive(StreamAccept)
    \/ Receive(StreamAcceptTimeout)
    \/ Peer(PeerSendFrame(CalFrames))
    \/ Peer(PeerClose)
    \/ Peer(PeerReset)
    \/ Receive(RecvHeader)
    \/ Receive(RecvChunk)
    \/ CalSkip /\ UNCHANGED << auxVars, now, piVars, hsVars, xsVars, depVars >>
    \/ CalUnexpected /\ UNCHANGED << auxVars, now, piVars, hsVars, xsVars, depVars >>
    \/ CalDetect /\ UNCHANGED << auxVars, now, piVars, hsVars, xsVars, depVars >>
    \/ CalAcquire /\ UNCHANGED << auxVars, now, piVars, hsVars, xsVars, depVars >>
    \/ CalStore /\ UNCHANGED << auxVars, now, piVars, hsVars, xsVars, depVars >>

\* the ingestion thread alone, on a network that splits reads
InitCalIngest == HsIdle /\ ConnInit(TRUE) /\ AppInit /\ PiIdle /\ AuxIdle
NextCalIngest == CalMainNext
SpecCalIngest == InitCalIngest /\ [][NextCalIngest]_vars

\* the fiducial server with its viewers
InitCal == HsIdle /\ ConnInit(FALSE) /\ AppInit /\ PiIdle /\ AuxIdle
NextCal ==
    \/ CalMainNext
    \/ \E v \in Viewers : View(ViewerLock(v, CalTypes))
    \/ \E v \in Viewers : View(CalViewerRead(v))
    \/ \E v \in Viewers : View(ViewerYield(v))
SpecCal == InitCal /\ [][NextCal]_vars

\* the ingestion thread of the fiducial server while the clock advances
InitCalWatchdog == HsIdle /\ ConnInit(TRUE) /\ AppInit /\ PiIdle /\ AuxIdle
NextCalWatchdog ==
    \/ CalMainNext
    \/ Tick /\ UNCHANGED << auxVars, wdVars, piVars, hsVars, streamVars, appVars >>
SpecCalWatchdog == InitCalWatchdog /\ [][NextCalWatchdog]_vars

\* the stereo depth server with its viewers (xeon_stream_depth.py)
InitDepth == HsIdle /\ ConnInit(FALSE) /\ AppInit /\ PiIdle /\ AuxIdle
NextDepth ==
    \/ Receive(StreamAccept)
    \/ Receive(StreamAcceptTimeout)
    \/ Peer(PeerSendFrame(DepthFrames))
    \/ Peer(PeerClose)
    \/ Peer(PeerReset)
    \/ Receive(RecvHeader)
    \/ Receive(RecvChunk)
    \/ DepthSkip /\ UNCHANGED << auxVars, now, piVars, hsVars, xsVars, calVars >>
    \/ DepthLockAndStore /\ UNCHANGED << auxVars, now, piVars, hsVars, xsVars, calVars >>
    \/ DepthCompute /\ UNCHANGED << auxVars, now, piVars, hsVars, xsVars, calVars >>
    \/ DepthAnnotate1 /\ UNCHANGED << auxVars, now, piVars, hsVars, xsVars, calVars >>
    \/ \E v \in Viewers : View(ViewerLock(v, DepthTypes))
    \/ \E v \in Viewers : View(DepthViewerRead(v))
    \/ \E v \in Viewers : View(ViewerYield(v))
SpecDepth == InitDepth /\ [][NextDepth]_vars

\* the ingestion thread of the stereo server alone, for a connection that
\* carries one frame more: a frame that arrives after both slots were filled
StereoFrames == { [cam |-> 0, data |-> JPEG_A], [cam |-> 1, data |-> JPEG_B] }
InitDepthIngest == HsIdle /\ ConnInit(FALSE) /\ AppInit /\ PiIdle /\ AuxIdle
NextDepthIngest ==
    \/ Receive(StreamAccept)
    \/ Receive(StreamAcceptTimeout)
    \/ Peer(PeerSendUpTo(StereoFrames, MaxFrames + 1))
    \/ Peer(PeerClose)
    \/ Peer(PeerReset)
    \/ Receive(RecvHeader)
    \/ Receive(RecvChunk)
    \/ DepthSkip /\ UNCHANGED << auxVars, now, piVars, hsVars, xsVars, calVars >>
    \/ DepthLockAndStore /\ UNCHANGED << auxVars, now, piVars, hsVars, xsVars, calVars >>
    \/ DepthCompute /\ UNCHANGED << auxVars, now, piVars, hsVars, xsVars, calVars >>
    \/ DepthAnnotate1 /\ UNCHANGED << auxVars, now, piVars, hsVars, xsVars, calVars >>
SpecDepthIngest == InitDepthIngest /\ [][NextDepthIngest]_vars

\* one session: the handshake server and the plain stream receiver, the two
\* programs of the compute node, each started by the operator; neither reads
\* any state of the other
SessionDocs ==
    { d \in Objects :
        /\ DOMAIN d.fields = Keys
        /\ d.fields["resolution"] = List(<<320, 240>>)
        /\ d.fields["timestamp"] = Num(1)
        /\ d.fields["cameras"] \in {List(<<0, 1>>), List(<<1, 0>>), List(<<0>>)} }
SessionFrames == { [cam |-> 0, data |-> JPEG_A], [cam |-> 1, data |-> NOT_JPEG] }

InitSession == HsInit(SessionDocs) /\ ConnInit(FALSE) /\ AppInit /\ PiIdle /\ AuxIdle
NextSession ==
    \/ Hs(HsAccept)
    \/ Hs(HsAcceptTimeout)
    \/ Hs(HsPeerClose)
    \/ Hs(HsPeerReset)
    \/ Hs(HsRecvLen)
    \/ Hs(HsRecvPayload)
    \/ Receive(StreamAccept)
    \/ Receive(StreamAcceptTimeout)
    \/ Peer(PeerSendFrame(SessionFrames))
    \/ Peer(PeerClose)
    \/ Peer(PeerReset)
    \/ Receive(RecvHeader)
    \/ Receive(RecvChunk)
    \/ XsSkip /\ UNCHANGED << auxVars, now, piVars, hsVars, calVars, depVars, viewVars >>
    \/ XsShow /\ UNCHANGED << auxVars, now, piVars, hsVars, calVars, depVars, viewVars >>
SpecSession == InitSession /\ [][NextSession]_vars

\* =====================================================================
\* Properties
\* =====================================================================
\* the payload handle_handshake parsed, when json.loads returned one
Parsed == payload.t = "doc"
ParsedDoc == payload.v[1]

HasAllKeys(p) == p.kind = "object" /\ Keys \subseteq DOMAIN p.fields

HasExpectedCameraSet(p) ==
    /\ p.kind = "object" /\ "cameras" \in DOMAIN p.fields
    /\ p.fields["cameras"].t = "list"
    /\ { p.fields["cameras"].v[i] : i \in DOMAIN p.fields["cameras"].v } = {0, 1}

HasExpectedCameraList(p) ==
    /\ p.kind = "object" /\ "cameras" \in DOMAIN p.fields
    /\ p.fields["cameras"] = List(<<0, 1>>)

HasTwoElementResolution(p) ==
    /\ p.kind = "object" /\ "resolution" \in DOMAIN p.fields
    /\ p.fields["resolution"].t = "list"
    /\ Len(p.fields["resolution"].v) = 2

Acknowledged == hs_outcome = "ack" /\ Len(hs_sent) = 1

\* C1 as stated: a parsed configuration is acknowledged if and only if it
\* carries exactly the expected set of camera identifiers and a two-element
\* resolution.
C1_AcceptedIffCameraSetAndResolution ==
    (hs_pc = "done" /\ Parsed) =>
        (Acknowledged <=>
            (HasExpectedCameraSet(ParsedDoc) /\ HasTwoElementResolution(ParsedDoc)))

\* C1 amended: a parsed configuration is acknowledged if and only if it is an
\* object that has all four fields, its cameras field equals the expected
\* list [0, 1] in that order, and its resolution is a list of two elements;
\* every other parsed configuration gets no reply and the handshake fails.
C1_AcceptedIffFieldsCameraListAndResolution ==
    (hs_pc = "done" /\ Parsed) =>
        /\ Acknowledged <=>
             (/\ HasAllKeys(ParsedDoc)
              /\ HasExpectedCameraList(ParsedDoc)
              /\ HasTwoElementResolution(ParsedDoc))
        /\ Acknowledged \/ (hs_sent = <<>> /\ hs_outcome \in {"invalid", "error"})

\* a configuration with the expected camera set in another order was rejected
C1_Witness ==
    /\ hs_pc = "done" /\ Parsed
    /\ HasAllKeys(ParsedDoc)
    /\ ParsedDoc.fields["cameras"] = List(<<1, 0>>)
    /\ HasTwoElementResolution(ParsedDoc)
    /\ hs_outcome = "invalid"

FailsValidation(d) ==
    \/ d.kind # "object"
    \/ ~HasAllKeys(d)
    \/ ~HasExpectedCameraSet(d)
    \/ ~HasTwoElementResolution(d)

\* C3: the handshake fails closed: when the payload fails validation or is
\* not parseable JSON, the server writes nothing on the connection, and the
\* connection is closed when it is done.
C3_FailsClosed ==
    (FailsValidation(hs_doc) \/ (hs_pc = "done" /\ ~Parsed)) =>
        /\ hs_sent = <<>>
        /\ hs_pc = "done" => hs_client = "closed"

\* a configuration with a wrong camera set was read in full and rejected
C3_Witness ==
    /\ hs_pc = "done"
    /\ Parsed
    /\ ~HasExpectedCameraSet(hs_doc)
    /\ hs_outcome = "invalid"
    /\ hs_client = "closed"

\* C4 as stated: the ingestion loop accepts a stream connection and reads
\* frames only in a session whose handshake ended with an ACK.
C4_StreamingOnlyAfterAck ==
    pc \in {"hdr", "body", "ret"} => hs_outcome = "ack"

\* C5 as stated: once a recv of the stream connection has returned the empty
\* string or raised, the loop does not read again: it ends and its sockets
\* are closed.
C5_ConnectionLostEndsLoop ==
    (eof_seen /\ pc # "ret") =>
        (pc = "done" /\ client = "closed" /\ server = "closed")

\* a header was decoded by the last call of receive_frame
HeaderDecoded == pc = "body" \/ (pc = "ret" /\ log \in {"frame", "decode_failed"})

\* C6 as stated: every header the loop decodes is the 8 bytes that begin at a
\* frame boundary of the sender.
C6_HeadersAtFrameBoundaries ==
    HeaderDecoded => hdr_at \in Boundaries

\* C7: the payload handed to image decoding is exactly the frame_size bytes
\* that follow the decoded header, and while it accumulates and when it is
\* complete the read position never passes the end of that payload.
C7_PayloadIsExactlyTheAnnouncedBytes ==
    HeaderDecoded =>
        /\ frame_data = SubSeq(stream, hdr_at + HEADER_SIZE + 1,
                               hdr_at + HEADER_SIZE + Len(frame_data))
        /\ pos = hdr_at + HEADER_SIZE + Len(frame_data)
        /\ Len(frame_data) <= frame_size
        /\ pc = "ret" => Len(frame_data) = frame_size

\* a payload was decoded while bytes of the following frame were in flight
C7_Witness ==
    /\ pc = "ret" /\ log = "frame"
    /\ hdr_at \in Boundaries
    /\ Len(frame_data) = 3
    /\ Remaining > 0

\* C8: a payload that fails image decoding is dropped: the next step of main
\* goes back to reading a header with the connection and the sockets as they
\* were and the cache unchanged, and when the header of that frame began at
\* a frame boundary the read position is again at a frame boundary.
C8_DecodeFailureIsDropped ==
    [][ (pc = "ret" /\ log = "decode_failed" /\ pc' # pc) =>
            /\ pc' = "hdr"
            /\ UNCHANGED << calVars, sockVars, pos, frame_lock >>
            /\ hdr_at \in Boundaries => pos \in Boundaries ]_vars

\* the first frame failed to decode and the second one was processed
C8_Witness ==
    /\ decode_drop
    /\ Len(frames) = 2
    /\ frames[1] = [cam |-> 0, data |-> NOT_JPEG]
    /\ frames[2] = [cam |-> 0, data |-> JPEG_B]
    /\ pc = "hdr"
    /\ main_latest_frame = DetectFramingSquare(ImDecode(JPEG_B)).output_frame

\* what the ingestion loop last published to the channel a viewer asks for
CalPublished(dt) == IF dt = "frame" THEN main_latest_frame ELSE main_latest_edges

\* C9 as stated: a read of a channel returns none before the first publish
\* and, after a publish, the image last published to that channel.
C9_ReadReturnsLastPublished ==
    [][ \A v \in Viewers :
          (v_pc[v] = "locked" /\ v_pc'[v] = "got") =>
              v_frame'[v] = CalPublished(v_type[v]) ]_vars

\* the value a channel held when the last update step ended
StableValue(dt) ==
    IF dt = "depth" THEN stable.depth ELSE DictGet(stable.frames, IntOf(dt))

\* C10: whatever the interleaving, a viewer's read returns the value the
\* last completed update step left in the slot (the value before the next
\* update step), never a value written part-way through an update step.
C10_ReadsAreNeverTorn ==
    [][ \A v \in Viewers :
          (v_pc[v] = "locked" /\ v_pc'[v] = "got") =>
              v_frame'[v] = StableValue(v_type[v]) ]_vars

\* a viewer holds an annotated frame it read while main is inside an update
\* step and another viewer waits for the lock
C10_Witness ==
    /\ pc = "cs_ann1"
    /\ frame_lock = HeldByMain
    /\ \E v \in Viewers : v_pc[v] = "got" /\ v_frame[v] # None
    /\ \E v \in Viewers : v_pc[v] = "idle"

\* C11 as stated: while the ingestion path holds frame_lock it only replaces
\* slot values: it computes no depth map and annotates no frame under the lock.
C11_LockHeldOnlyToReplaceSlots ==
    lock_work \subseteq {"store"}

\* C12 as stated: once both cameras have a decoded frame in the cache, a
\* viewer's read of the depth channel returns an image, not none.
C12_DepthReadableOnceBothCamerasSeen ==
    [][ \A v \in Viewers :
          (/\ v_pc[v] = "locked" /\ v_pc'[v] = "got"
           /\ v_type[v] = "depth"
           /\ latest_frames[0] # None /\ latest_frames[1] # None) =>
              v_frame'[v] # None ]_vars

\* C15 as stated: a frame whose camera identifier is not an expected one
\* creates no new channel: the cache keeps exactly the slots of cameras 0 and 1.
C15_UnexpectedCameraCreatesNoChannel ==
    DOMAIN latest_frames = {0, 1}

\* C16 as stated: an update step, which processes the frame of one camera,
\* leaves the slot of the other camera as it was: when the step ends at most
\* one camera slot differs from what the previous step left.
C16_UpdateChangesOneCameraSlot ==
    [][ (frame_lock = HeldByMain /\ frame_lock' = Unlocked) =>
            Cardinality({ c \in {0, 1} : latest_frames'[c] # stable.frames[c] }) <= 1 ]_vars

\* C18 as stated: however the handshake message is split into partial reads,
\* the server holds the full 4-byte length prefix before it reads the body,
\* and when it has parsed (the peer still connected) it has consumed the
\* prefix and exactly the announced number of body bytes.
C18_ReadsWholeMessageBeforeParsing ==
    /\ hs_pc = "recv_payload" => length_bytes = SubSeq(HandshakeMessage, 1, LEN_PREFIX_SIZE)
    /\ (hs_pc = "done" /\ hs_peer = "open") =>
          hs_pos = LEN_PREFIX_SIZE + Len(BodyBytes)

\* C19 as stated: a server whose accept times out reports it and returns
\* normally with its listening socket closed, without an unhandled error.
C19_AcceptTimeoutEndsCleanly ==
    /\ hs_outcome = "timeout" => (hs_pc = "done" /\ hs_server = "closed")
    /\ hs_pc # "crashed"
    /\ pc # "crashed"

\* C17: a viewer holds frame_lock only between entering its with block and
\* binding its frame: the step it then takes needs nothing from main or from
\* another viewer and releases the lock, so a viewer that encodes, yields or
\* sleeps never holds it, and whenever main waits for the lock the lock is
\* free or one step of the one viewer inside its with block frees it.
C17_ViewersHoldLockForOneRead ==
    /\ [](\A v \in Viewers : frame_lock = HeldBy(v) <=> v_pc[v] = "locked")
    /\ [](\A v \in Viewers : v_pc[v] = "locked" => ENABLED View(CalViewerRead(v)))
    /\ [](pc = "want_lock" =>
            \/ frame_lock = Unlocked
            \/ \E v \in Viewers : frame_lock = HeldBy(v) /\ v_pc[v] = "locked")
    /\ [][ \A v \in Viewers :
             (v_pc[v] = "locked" /\ v_pc'[v] # "locked") => frame_lock' = Unlocked ]_vars

\* main is inside its with block while every viewer is encoding or sleeping
C17_Witness ==
    /\ pc = "cs"
    /\ frame_lock = HeldByMain
    /\ \A v \in Viewers : v_pc[v] = "got"

Finished == DOMAIN pi_log
Succeeded(i) == pi_log[i].result

\* C13: the retry loop makes at most max_retries (3) attempts; no attempt
\* follows a successful one; the loop reports failure only after 3 failed
\* attempts, and 3 failed attempts are followed by that report and nothing
\* else; once it has succeeded or reported failure the client does nothing more.
C13_AtMostThreeAttempts ==
    /\ [](/\ attempt <= max_retries
          /\ Len(pi_log) <= attempt
          /\ \A i \in Finished : Succeeded(i) => i = Len(pi_log)
          /\ (\E i \in Finished : Succeeded(i)) => pi_pc = "succeeded"
          /\ pi_pc = "succeeded" => Succeeded(Len(pi_log))
          /\ pi_pc = "failed" =>
                (Len(pi_log) = max_retries /\ \A i \in Finished : ~Succeeded(i)))
    /\ [][ /\ (pi_pc = "loop" /\ Len(pi_log) = max_retries) => pi_pc' = "failed"
           /\ pi_pc \in {"succeeded", "failed"} => UNCHANGED piVars ]_vars

\* three attempts failed, each for another reason, and failure was reported
C13_Witness ==
    /\ pi_pc = "failed"
    /\ attempt = 3
    /\ pi_log[1].cause.kind = "refused"
    /\ pi_log[2].cause.kind = "timeout"
    /\ pi_log[3].cause.kind = "reply"

\* a reply was received whole and parsed to an object whose status is ACK
AckReceived(c) ==
    /\ c.kind = "reply"
    /\ c.n = Len(ReplyBytes)
    /\ c.doc.kind = "object"
    /\ "status" \in DOMAIN c.doc.fields
    /\ c.doc.fields["status"] = Str(ACK)

\* C14: send_handshake returns True only for a reply received and parsed
\* with status ACK (and for every such reply); another status, a malformed,
\* partial or empty reply, a reply timeout, a reset, a connect timeout and a
\* refused connection each return False.
C14_SuccessOnlyOnAck ==
    \A i \in Finished : Succeeded(i) <=> AckReceived(pi_log[i].cause)

\* an attempt answered with another status failed, the next one got an ACK
C14_Witness ==
    /\ pi_pc = "succeeded"
    /\ Len(pi_log) = 2
    /\ pi_log[1].cause.kind = "reply"
    /\ pi_log[1].cause.n = Len(ReplyBytes)
    /\ pi_log[1].cause.doc.kind = "object"
    /\ pi_log[1].cause.doc.fields = [status |-> Str(REJECTED), timestamp |-> Num(1)]
    /\ ~Succeeded(1)
    /\ AckReceived(pi_log[2].cause)

\* C21: while the slot of either camera is empty no depth map has been
\* computed or published: the depth channel and main's depth map are none,
\* main has computed no depth under the lock, and the frame of the one camera
\* that has produced one sits in its slot as decoded.
C21_NoDepthUntilBothCameras ==
    (latest_frames[0] = None \/ latest_frames[1] = None) =>
        /\ latest_depth = None
        /\ main_latest_depth = None
        /\ "depth" \notin lock_work
        /\ \A c \in {0, 1} : latest_frames[c] # None => latest_frames[c].v[1] = "decoded"

\* camera 0 has a frame in its slot, camera 1 has none, the update step is
\* over and a viewer has read the depth channel
C21_Witness ==
    /\ latest_frames[0] # None
    /\ latest_frames[1] = None
    /\ lock_work = {"store"}
    /\ frame_lock = Unlocked
    /\ \E v \in Viewers : v_pc[v] = "got" /\ v_type[v] = "depth" /\ v_frame[v] = None

\* C27 as stated: every backoff wait is followed by another attempt: the
\* client never waits after its final failed attempt.
C27_BackoffOnlyBetweenAttempts ==
    pi_pc = "sleep" => attempt < max_retries

\* the two frames a depth map was computed from
DepthInputs == main_latest_depth.v[2]

\* C30 as stated: every image the disparity computation was given is a
\* frame as decoded from the stream, never an annotated output frame.
C30_DepthInputsAreDecodedFrames ==
    main_latest_depth # None =>
        \A i \in 1 .. 2 : DepthInputs[i][1] = "decoded"

\* C24 as stated: for every decoded frame of the expected camera the
\* estimator returns an output frame and an edge map, detection or not, and
\* the step that ends the processing of the frame leaves both in the cache
\* the viewers read.
C24_EveryFrameIsPublished ==
    [][ (pc = "cs" /\ pc' = "hdr") =>
            /\ output_frame # None /\ edges # None
            /\ latest_frame' = output_frame
            /\ latest_edges' = edges ]_vars

\* C28: one run of the handshake server accepts at most one connection (the
\* only accept is the one that binds `client` for the first time, before
\* anything was sent) and sends at most one ACK; when the connection has
\* been handled the connection and the listening socket are closed, and
\* from then on the server does nothing: a later connection attempt is
\* neither accepted nor acknowledged.
C28_OneConnectionOneAck ==
    /\ [](Len(hs_sent) <= 1)
    /\ [](hs_pc = "done" => (hs_client = "closed" /\ hs_server = "closed"))
    /\ [][ /\ (hs_client' = "open" /\ hs_client # "open") =>
                (hs_client = "unbound" /\ hs_sent = <<>>)
           /\ hs_pc = "done" => UNCHANGED hsVars ]_vars

\* the one connection was rejected and the listening socket is closed
C28_Witness ==
    /\ hs_pc = "done"
    /\ hs_outcome = "invalid"
    /\ hs_sent = <<>>
    /\ hs_client = "closed"
    /\ hs_server = "closed"
    /\ hs_pos = Len(HandshakeMessage)

LargeContours ==
    {i \in 1 .. Len(fid_contours) : 10 * fid_contours[i].area > FrameArea}
LargeQuads == {i \in LargeContours : fid_contours[i].vertices = 4}
FirstOf(S) == CHOOSE i \in S : \A j \in S : i <= j

LargeObjects ==
    {i \in 1 .. Len(obj_contours) : 10 * obj_contours[i].area > FrameArea}
BoxPixels(i) ==
    {px \in 1 .. Len(st_map) :
        /\ px > obj_contours[i].box.x
        /\ px <= obj_contours[i].box.x + obj_contours[i].box.w}
Annotated == {a.i : a \in obj_annotations}

\* C29: when detect_objects_and_depth returns, every contour above a tenth
\* of the frame was considered, exactly those whose box holds a strictly
\* positive disparity pixel are annotated, and every annotation divides by a
\* positive mean taken over the strictly positive pixels of its box.
C29_EveryLargeContourConsidered ==
    st_pc = "done" =>
        /\ obj_considered = LargeObjects
        /\ Annotated = {i \in LargeObjects : \E px \in BoxPixels(i) : st_map[px] > 0}
        /\ \A a \in obj_annotations :
              /\ a.count = Cardinality({px \in BoxPixels(a.i) : st_map[px] > 0})
              /\ a.count > 0
              /\ a.sum >= a.count
              /\ a.depth.den > 0

\* two large contours: the box of the first holds only zero disparity and is
\* not annotated, the second is annotated
C29_Witness ==
    /\ st_pc = "done"
    /\ Len(obj_contours) = 2
    /\ obj_considered = {1, 2}
    /\ \A px \in BoxPixels(1) : st_map[px] = 0
    /\ Annotated = {2}

\* every matched pixel of the pair has the disparity d
UniformShift(d) ==
    /\ \A px \in 1 .. Len(st_raw) : st_raw[px] \in {INVALID_DISPARITY, 16 * d}
    /\ \E px \in 1 .. Len(st_raw) : st_raw[px] = 16 * d

\* C25: for a pair with a uniform shift of d pixels, the depth annotated on
\* a region is focalLength * baseline / d: the mean disparity is d.
C25_DepthIsFocalTimesBaselineOverShift ==
    st_pc = "done" =>
        \A d \in 1 .. 2 : UniformShift(d) =>
            \A a \in obj_annotations :
                /\ a.sum = d * a.count
                /\ a.depth.num * 10 * d = FOCAL_LENGTH * BASELINE_TENTHS * a.depth.den

\* the images a name refers to
Named ==
    ({ref_ret, ref_frames[0], ref_frames[1], ref_depth, ref_output, ref_edges,
      ref_held}) \ {0}

\* C26: an image that was decoded, stored under a name or taken by a viewer
\* is never written again: no step changes the content of such an image, and
\* every image a name refers to is such an image.
C26_NeverModifiedInPlace ==
    /\ [](Named \subseteq ref_protected)
    /\ [][ \A id \in ref_protected : heap'[id] = heap[id] ]_vars

\* a viewer holds an image annotated twice (an annotated copy of an annotated
\* copy) while the decoded frames it came from are still unmarked
C26_Witness ==
    /\ ref_prog = "depth"
    /\ ref_held # 0
    /\ heap[ref_held].marks = 2
    /\ ref_frames[0] # 0
    /\ ref_frames[0] # ref_held
    /\ \A id \in ref_protected : heap[id].kind = "decoded" => heap[id].marks = 0

\* C31: a client sends its image only after it has read the CAPTURE
\* command; what it reports as the server's response is the confirmation;
\* and the server's exchange with a client ends well only while that client
\* is still connected.
C31_ClientFollowsServerOrder ==
    /\ [](\A c \in Clients : cl_result[c] = "received" => cl_data[c] = << CONFIRMATION >>)
    /\ [][ \A c \in Clients :
             /\ (cl_image'[c] > 0 /\ cl_image[c] = 0) =>
                   \E i \in 1 .. Len(cl_data[c]) : cl_data[c][i] = CAPTURE
             /\ (srv_outcome'[c] = "ok" /\ srv_outcome[c] # "ok") => cl_sock[c] = "open"
         ]_vars

\* the connections handle_client is working on
Serving == {c \in Clients : conn_state[c] = "open"}

\* C32: handle_client serves one connection at a time; a step in which it
\* meets an exception closes the connection and leaves the server accepting;
\* main's loop never ends; while the server accepts, no connection it has
\* taken is open.
C32_FailuresReturnToAccept ==
    /\ [](srv_pc # "dead")
    /\ [](Serving = IF srv_conn = 0 THEN {} ELSE {srv_conn})
    /\ [](srv_pc = "accept" <=> srv_conn = 0)
    /\ [][ \A c \in Clients :
             srv_outcome'[c] # srv_outcome[c] =>
                /\ c = srv_conn
                /\ conn_state'[c] = "closed"
                /\ srv_pc' = "accept"
                /\ srv_conn' = 0
                /\ backlog' = backlog
         ]_vars

\* one client was dropped on a connection error and another on an unexpected
\* exception, and the server is accepting again
C32_Witness ==
    /\ srv_pc = "accept"
    /\ srv_outcome[1] = "ConnectionError"
    /\ srv_outcome[2] = "Exception"
    /\ conn_state[1] = "closed"
    /\ conn_state[2] = "closed"

====
